---- MODULE Spec2Model ----
(***************************************************************************)
(* Streaming MCP client of the Superset AI assistant.                      *)
(*                                                                         *)
(*   docker/mcp-client/main.py      StreamingMCPClient,                    *)
(*                                  StreamingOpenRouterClient, POST /chat  *)
(*   docker/mcp-client/main_old.py  MCPClient._send_jsonrpc_request,       *)
(*                                  POST /chat (chat_completion_stream)    *)
(*   superset/views/mcp_client_api.py  McpClientApi.chat                   *)
(*                                                                         *)
(* Twelve specifications share the variables below:                        *)
(*   Spec       one /chat request (generate_streaming_response)            *)
(*   SpecDisc   the same request with a client that may disconnect         *)
(*   SpecPair   /chat requests in flight together                          *)
(*   SpecLoop   the same request against a coarser model and tool server   *)
(*   SpecAcc    the tool-call accumulator of stream_chat_with_tools        *)
(*   SpecTrunc  _truncate_large_data applied to a payload, then again      *)
(*   SpecExtract  _extract_mcp_content applied to a tool-result envelope   *)
(*   SpecRpc    MCPClient._send_jsonrpc_request                            *)
(*   SpecIds    request ids of coroutines that share one MCPClient         *)
(*   SpecOld    POST /chat of main_old.py                                  *)
(*   SpecTool   one call of stream_tool_execution                          *)
(*   SpecRelay  POST /chat of the Superset view (mcp_client_api.py)        *)
(***************************************************************************)
EXTENDS Integers, Sequences, FiniteSets, TLC

VARIABLES
    \* ---- one /chat request (main.py, generate_streaming_response) ----
    pc,             \* position of the request's coroutine
    client_ok,      \* streaming_openrouter_client is not None
    api_key,        \* StreamingOpenRouterClient.api_key is non-empty
    request_model,  \* request.model
    tools_cache,    \* StreamingMCPClient._tools_cache
    mcp_tools,      \* mcp_tools, the result of list_tools()
    messages,       \* message list handed to the running model generation
    gen,            \* which generation runs: "first", "followup", "plain"
    gen_tools,      \* tools argument of the running generation
    chunk_count,    \* chunk_count of the running generation
    tool_calls,     \* tool_calls buffer of the running generation
    batch_tool_calls, \* tool_calls of the controller: the captured set
    call_k,         \* position of the for loop over tool_calls (1-based)
    function_args,  \* function_args of the call being executed
    tool_results,   \* tool_results of the batch
    out,            \* the outward stream: events yielded so far
    \* history of the request
    gens,           \* finish outcome of every model generation, in order
    rounds,         \* number of tool-execution batches started
    invoked,        \* tool invocations issued, in order
    frags,          \* tool-call fragments consumed by the request, in order
    texts,          \* non-empty content pieces consumed by the request, in order
    fetches,        \* calls of list_tools() by the request, in order
    connected,      \* the client still holds the connection of the response
    chats,          \* SpecPair: the /chat requests in flight and their frames
    tool_resp,      \* SpecTool: what the post of stream_tool_execution gets
    relay,          \* SpecRelay: generate_stream of the view, its upstream
    \* ---- _truncate_large_data (main.py) ----
    t_pc, t_in, t_once, t_twice,
    \* ---- MCPClient (main_old.py) ----
    request_id,     \* MCPClient.request_id
    rpc_pc,         \* "idle", "awaiting", "returned"
    rpc_id,         \* request_id local of the call in flight
    rpc_resp,       \* the HTTP response delivered to the call
    rpc_result,     \* the local `result` when the call returns
    rpc_ret,        \* the value the call returns
    callers,        \* SpecIds: per coroutine, its call of _send_jsonrpc_request
    issued          \* SpecIds: the ids put into request payloads, in order

chat_vars == <<pc, client_ok, api_key, request_model, tools_cache, mcp_tools,
               messages, gen, gen_tools, chunk_count, tool_calls,
               batch_tool_calls, call_k,
               function_args, tool_results, out, gens, rounds, invoked, frags,
               texts, fetches, connected, chats, tool_resp, relay>>
trunc_vars == <<t_pc, t_in, t_once, t_twice>>
rpc_vars == <<request_id, rpc_pc, rpc_id, rpc_resp, rpc_result, rpc_ret,
              callers, issued>>
vars == <<chat_vars, trunc_vars, rpc_vars>>

None == "None"

(***************************************************************************)
(* Python values.  A value is a record [t, v]: t is the Python type, v the *)
(* content: a function from keys for a dict, a sequence for a list, a      *)
(* sequence of characters for a str.                                       *)
(***************************************************************************)
PyDict(f) == [t |-> "dict", v |-> f]
PyList(s) == [t |-> "list", v |-> s]
PyStr(s)  == [t |-> "str", v |-> s]
PyInt(n)  == [t |-> "int", v |-> n]
PyBool(b) == [t |-> "bool", v |-> b]
PyNone    == [t |-> "none", v |-> 0]
EmptyDict == PyDict(<<>>)

\* Python truth value of a value (`if x:`)
Truthy(x) ==
    CASE x.t = "dict" -> DOMAIN x.v # {}
      [] x.t = "list" -> Len(x.v) > 0
      [] x.t = "str"  -> Len(x.v) > 0
      [] x.t = "int"  -> x.v # 0
      [] x.t = "bool" -> x.v
      [] OTHER        -> FALSE

Rep(x, n) == [i \in 1..n |-> x]

DigitChars == <<"0", "1", "2", "3", "4", "5", "6", "7", "8", "9">>

\* str(n) for a natural number n, as a sequence of characters
RECURSIVE Digits(_)
Digits(n) == IF n < 10 THEN <<DigitChars[n + 1]>>
             ELSE Digits(n \div 10) \o <<DigitChars[(n % 10) + 1]>>

(***************************************************************************)
(* Content normalizer and truncator (StreamingMCPClient).                  *)
(* The fixed Korean text of a notice is kept as one element per piece; the *)
(* interpolated numbers are rendered digit by digit.                       *)
(***************************************************************************)
DefaultMaxRows == 50
DefaultMaxChars == 50000

RowsMessage(max_rows, original_count) ==
    PyStr(<<"[warn] too much data, showing only ">> \o Digits(max_rows)
          \o <<" rows. (total: ">> \o Digits(original_count) \o <<")">>)

ItemsMessage(max_rows, original_count) ==
    PyStr(<<"[warn] too much data, showing only ">> \o Digits(max_rows)
          \o <<" items. (total: ">> \o Digits(original_count) \o <<")">>)

TextNotice(max_chars, original_len) ==
    <<"\n", "\n", "[warn] text too long, cut to ">> \o Digits(max_chars)
      \o <<" chars. (total: ">> \o Digits(original_len) \o <<")">>

TruncationKeys == {"_truncated", "_original_count", "_showing_count",
                   "_truncation_message"}

\* the dict branch with a "data" row list longer than max_rows:
\* data.copy() with the rows sliced and the four annotations set
TruncateRowsDict(d, max_rows) ==
    LET original_count == Len(d["data"].v) IN
    PyDict([k \in DOMAIN d \cup TruncationKeys |->
              CASE k = "data" -> PyList(SubSeq(d["data"].v, 1, max_rows))
                [] k = "_truncated" -> PyBool(TRUE)
                [] k = "_original_count" -> PyInt(original_count)
                [] k = "_showing_count" -> PyInt(max_rows)
                [] k = "_truncation_message" ->
                       RowsMessage(max_rows, original_count)
                [] OTHER -> d[k]])

\* the list branch for a list longer than max_rows
TruncateLongList(l, max_rows) ==
    PyDict([k \in {"data"} \cup TruncationKeys |->
              CASE k = "data" -> PyList(SubSeq(l, 1, max_rows))
                [] k = "_truncated" -> PyBool(TRUE)
                [] k = "_original_count" -> PyInt(Len(l))
                [] k = "_showing_count" -> PyInt(max_rows)
                [] OTHER -> ItemsMessage(max_rows, Len(l))])

\* the str branch
TruncateStr(s, max_chars) ==
    IF Len(s) > max_chars
    THEN PyStr(SubSeq(s, 1, max_chars) \o TextNotice(max_chars, Len(s)))
    ELSE PyStr(s)

HasLongRows(d, max_rows) ==
    /\ "data" \in DOMAIN d
    /\ d["data"].t = "list"
    /\ Len(d["data"].v) > max_rows

RECURSIVE _truncate_large_data(_, _, _)
_truncate_large_data(data, max_rows, max_chars) ==
    CASE data.t = "dict" ->
           IF HasLongRows(data.v, max_rows)
           THEN TruncateRowsDict(data.v, max_rows)
           ELSE PyDict([k \in DOMAIN data.v |->
                          _truncate_large_data(data.v[k], max_rows, max_chars)])
      [] data.t = "list" ->
           IF Len(data.v) > max_rows
           THEN TruncateLongList(data.v, max_rows)
           ELSE PyList([i \in 1..Len(data.v) |->
                          _truncate_large_data(data.v[i], max_rows, max_chars)])
      [] data.t = "str" -> TruncateStr(data.v, max_chars)
      [] OTHER -> data

(***************************************************************************)
(* JSON text.  json.dumps renders a value as a sequence of characters;     *)
(* json.loads is its inverse on the documents of JsonDocs and fails on     *)
(* every other text.                                                       *)
(***************************************************************************)
RECURSIVE JsonDumps(_)
RECURSIVE JsonJoin(_, _)
RECURSIVE JsonMembers(_, _)
JsonJoin(items, i) ==
    IF i > Len(items) THEN <<>>
    ELSE (IF i > 1 THEN <<",">> ELSE <<>>) \o JsonDumps(items[i])
             \o JsonJoin(items, i + 1)
JsonMembers(d, keys) ==
    IF keys = {} THEN <<>>
    ELSE LET k == CHOOSE x \in keys : TRUE IN
         <<"\"", k, "\"", ":">> \o JsonDumps(d[k])
            \o (IF keys = {k} THEN <<>> ELSE <<",">>)
            \o JsonMembers(d, keys \ {k})
JsonDumps(x) ==
    CASE x.t = "dict" -> <<"{">> \o JsonMembers(x.v, DOMAIN x.v) \o <<"}">>
      [] x.t = "list" -> <<"[">> \o JsonJoin(x.v, 1) \o <<"]">>
      [] x.t = "str"  -> <<"\"">> \o x.v \o <<"\"">>
      [] x.t = "int"  -> Digits(x.v)
      [] x.t = "bool" -> IF x.v THEN <<"true">> ELSE <<"false">>
      [] OTHER        -> <<"null">>

\* rows of a result set: n dicts {"id": i}
Rows(n) == [i \in 1..n |-> PyDict([id |-> PyInt(i)])]

JsonDocs ==
    { PyList(Rows(2)), PyList(Rows(DefaultMaxRows + 1)),
      PyDict([count |-> PyInt(2)]), PyInt(7) }

\* json.loads(text): [ok, v]; ok = FALSE stands for JSONDecodeError
JsonLoads(text) ==
    IF \E d \in JsonDocs : JsonDumps(d) = text
    THEN [ok |-> TRUE, v |-> CHOOSE d \in JsonDocs : JsonDumps(d) = text]
    ELSE [ok |-> FALSE, v |-> PyNone]

_unwrap_mcp_structure(mcp_result) ==
    IF mcp_result.t = "dict"
    THEN LET r == mcp_result.v IN
         IF "structuredContent" \in DOMAIN r /\ Truthy(r["structuredContent"])
         THEN r["structuredContent"]
         ELSE IF "content" \in DOMAIN r /\ Truthy(r["content"])
         THEN LET content == r["content"] IN
              IF /\ content.t = "list"
                 /\ Len(content.v) > 0
                 /\ content.v[1].t = "dict"
                 /\ "text" \in DOMAIN content.v[1].v
              THEN LET text_content == content.v[1].v["text"] IN
                   IF text_content.t = "str" /\ JsonLoads(text_content.v).ok
                   THEN JsonLoads(text_content.v).v
                   ELSE text_content
              ELSE content
         ELSE mcp_result
    ELSE mcp_result

_extract_mcp_content(mcp_result) ==
    _truncate_large_data(_unwrap_mcp_structure(mcp_result),
                         DefaultMaxRows, DefaultMaxChars)

(***************************************************************************)
(* Bounds of the model.                                                    *)
(***************************************************************************)
MaxOver == 1        \* how far beyond a limit the generated payloads go
MaxChunks == 2      \* chunks of one model stream in Spec
MaxIndex == 1       \* largest tool-call index in Spec
MaxFragments == 3   \* fragments of one model stream in SpecAcc
MaxAccIndex == 2    \* largest tool-call index in SpecAcc
MaxLines == 3       \* lines of a response body in SpecRpc
MaxRequests == 2    \* JSON-RPC requests sent in SpecRpc
MaxCallers == 3     \* coroutines that share one MCPClient in SpecIds
MaxIssued == 4      \* JSON-RPC requests sent in SpecIds
MaxChats == 2       \* /chat requests in flight in SpecPair
MaxPairFragments == 2   \* tool-call fragments per request in SpecPair

(***************************************************************************)
(* Idle values: a specification that exercises one component leaves the    *)
(* variables of the others at these values.                                *)
(***************************************************************************)
RequestIdle ==
    /\ pc = "idle"
    /\ client_ok = TRUE
    /\ api_key = TRUE
    /\ request_model = "openai/gpt-4o-mini"
    /\ tools_cache = None
    /\ mcp_tools = <<>>
    /\ messages = <<>>
    /\ gen = None
    /\ gen_tools = <<>>
    /\ chunk_count = 0
    /\ tool_calls = <<>>
    /\ batch_tool_calls = <<>>
    /\ call_k = 0
    /\ function_args = EmptyDict
    /\ tool_results = <<>>
    /\ out = <<>>
    /\ gens = <<>>
    /\ rounds = 0
    /\ invoked = <<>>
    /\ frags = <<>>
    /\ texts = <<>>
    /\ fetches = <<>>
    /\ connected = TRUE

\* no call of stream_tool_execution under test
ToolIdle ==
    tool_resp = [kind |-> "none", status |-> 0, sse |-> FALSE, lines |-> <<>>]

\* no request to the view
RelayIdle ==
    relay = [pc |-> "idle", status |-> 0, chunks |-> <<>>, raises |-> 0,
             k |-> 0]

ChatIdle == RequestIdle /\ chats = <<>> /\ ToolIdle /\ RelayIdle

TruncIdle ==
    /\ t_pc = "idle"
    /\ t_in = PyNone
    /\ t_once = PyNone
    /\ t_twice = PyNone

RpcIdle ==
    /\ request_id = 0
    /\ rpc_pc = "idle"
    /\ rpc_id = 0
    /\ rpc_resp = [kind |-> "none", status |-> 0, content_type |-> "",
                   lines |-> <<>>]
    /\ rpc_result = [tag |-> "none",
                     obj |-> [has_id |-> FALSE, id |-> 0, has_method |-> FALSE,
                              has_result |-> FALSE, has_error |-> FALSE],
                     truthy |-> FALSE, via |-> "none"]
    /\ rpc_ret = [kind |-> "none", error |-> None]
    /\ callers = <<>>
    /\ issued = <<>>

(***************************************************************************)
(* SpecTrunc: a payload is truncated, and the outcome truncated again.     *)
(***************************************************************************)
ListLens == {0, 1, DefaultMaxRows} \cup
            {DefaultMaxRows + k : k \in 1..MaxOver}

TruncStrs ==
    {PyStr(<<>>), PyStr(<<"a", "b">>)} \cup
    {PyStr(Rep("x", DefaultMaxChars + k)) : k \in 0..MaxOver}

TruncScalars == {PyInt(0), PyInt(7), PyNone, PyBool(TRUE)}

TruncItems ==
    {PyInt(7), PyStr(<<"a", "b">>), PyDict([id |-> PyInt(1)]),
     PyList(<<PyInt(1)>>), PyList(Rep(PyInt(1), DefaultMaxRows + 1))}

TruncLists ==
    {PyList(Rep(x, n)) : x \in TruncItems, n \in ListLens} \cup
    {PyList(<<s>>) : s \in TruncStrs}

TruncRowLists ==
    {PyList(Rep(x, n)) :
        x \in {PyInt(7), PyList(Rep(PyInt(1), DefaultMaxRows + 1))},
        n \in ListLens}

TruncDicts ==
    {PyDict([data |-> l, note |-> s]) : l \in TruncRowLists, s \in TruncStrs}
    \cup {PyDict([rows |-> l]) : l \in TruncRowLists}
    \cup {PyDict([data |-> PyInt(1)]), EmptyDict}

TruncInputs == TruncScalars \cup TruncStrs \cup TruncLists \cup TruncDicts

InitTrunc ==
    /\ ChatIdle
    /\ RpcIdle
    /\ t_pc = "input"
    /\ t_in \in TruncInputs
    /\ t_once = PyNone
    /\ t_twice = PyNone

TruncateOnce ==
    /\ t_pc = "input"
    /\ t_once' = _truncate_large_data(t_in, DefaultMaxRows, DefaultMaxChars)
    /\ t_pc' = "once"
    /\ UNCHANGED <<t_in, t_twice, chat_vars, rpc_vars>>

TruncateTwice ==
    /\ t_pc = "once"
    /\ t_twice' = _truncate_large_data(t_once, DefaultMaxRows, DefaultMaxChars)
    /\ t_pc' = "twice"
    /\ UNCHANGED <<t_in, t_once, chat_vars, rpc_vars>>

NextTrunc == TruncateOnce \/ TruncateTwice

SpecTrunc == InitTrunc /\ [][NextTrunc]_vars

\* C5: truncation is idempotent: truncating a truncated payload again with
\* the same limits returns it unchanged.
C5_Idempotent == t_pc = "twice" => t_twice = t_once

(***************************************************************************)
(* SpecExtract: _extract_mcp_content applied to the result of a tools/call *)
(* answer: the envelope is unwrapped, then the payload is truncated.       *)
(***************************************************************************)
text_type == PyStr(<<"t", "e", "x", "t">>)
image_type == PyStr(<<"i", "m", "a", "g", "e">>)

\* elements of a content array: text that parses as JSON, text that does
\* not, a text field that is not a string, and an element without text
TextItem(text) == PyDict([type |-> text_type, text |-> text])
ImageItem == PyDict([type |-> image_type])

ContentItems ==
    {TextItem(PyStr(JsonDumps(PyList(Rows(2))))),
     TextItem(PyStr(JsonDumps(PyList(Rows(DefaultMaxRows + 1))))),
     TextItem(PyStr(<<"a", "b">>)),
     TextItem(PyInt(7)),
     ImageItem,
     PyInt(7)}

Contents ==
    {PyList(<<>>), PyStr(<<"a", "b">>)}
    \cup {PyList(<<x>>) : x \in ContentItems}
    \cup {PyList(<<x, y>>) : x, y \in ContentItems}

StructuredContents ==
    {EmptyDict, PyList(<<>>), PyList(Rows(2))}
    \cup TruncDicts
    \cup {PyDict([items |-> PyList(<<s>>)]) : s \in TruncStrs}

Envelopes ==
    {PyDict([structuredContent |-> sc]) : sc \in StructuredContents}
    \cup {PyDict([content |-> c]) : c \in Contents}
    \cup {PyDict([structuredContent |-> sc, content |-> c]) :
             sc \in {EmptyDict, PyDict([count |-> PyInt(2)])},
             c \in {PyList(<<>>), PyList(<<ImageItem>>),
                    PyList(<<TextItem(PyStr(<<"a", "b">>))>>)}}
    \cup {PyDict([isError |-> PyBool(FALSE)]), EmptyDict, PyNone,
          PyList(Rows(2)), PyStr(<<"a", "b">>)}

InitExtract ==
    /\ ChatIdle
    /\ RpcIdle
    /\ t_pc = "envelope"
    /\ t_in \in Envelopes
    /\ t_once = PyNone
    /\ t_twice = PyNone

\* core_content = self._unwrap_mcp_structure(mcp_result)
Unwrap ==
    /\ t_pc = "envelope"
    /\ t_once' = _unwrap_mcp_structure(t_in)
    /\ t_pc' = "unwrapped"
    /\ UNCHANGED <<t_in, t_twice, chat_vars, rpc_vars>>

\* return self._truncate_large_data(core_content)
Truncate ==
    /\ t_pc = "unwrapped"
    /\ t_twice' = _truncate_large_data(t_once, DefaultMaxRows, DefaultMaxChars)
    /\ t_pc' = "extracted"
    /\ UNCHANGED <<t_in, t_once, chat_vars, rpc_vars>>

NextExtract == Unwrap \/ Truncate

SpecExtract == InitExtract /\ [][NextExtract]_vars

\* the text-bearing elements of a content array: positions of the dicts
\* with a "text" field
TextBearing(content) ==
    {i \in 1..Len(content.v) :
        content.v[i].t = "dict" /\ "text" \in DOMAIN content.v[i].v}

\* the payload of an envelope by the precedence of C25
PayloadByPrecedence(e) ==
    IF e.t # "dict" THEN e
    ELSE IF "structuredContent" \in DOMAIN e.v
            /\ Truthy(e.v["structuredContent"])
    THEN e.v["structuredContent"]
    ELSE IF /\ "content" \in DOMAIN e.v
            /\ e.v["content"].t = "list"
            /\ TextBearing(e.v["content"]) # {}
    THEN LET content == e.v["content"]
             first == CHOOSE i \in TextBearing(content) :
                         \A j \in TextBearing(content) : i <= j
             text == content.v[first].v["text"]
         IN  IF text.t = "str" /\ JsonLoads(text.v).ok
             THEN JsonLoads(text.v).v
             ELSE text
    ELSE e

\* the envelopes on which the precedence of C25 leaves no choice: the
\* content field, when it is there, is an array that is empty or holds a
\* text-bearing element
PlainEnvelope(e) ==
    (e.t = "dict" /\ "content" \in DOMAIN e.v) =>
        /\ e.v["content"].t = "list"
        /\ e.v["content"].v # <<>> => TextBearing(e.v["content"]) # {}

\* C25: the payload extracted from a tool-result envelope is the
\* structured-content field when it is present and non-empty; otherwise,
\* when the content array is non-empty, the JSON parse of the text of its
\* first text-bearing element, or that raw text when it does not parse;
\* otherwise the envelope unchanged.
C25_ExtractionPrecedence ==
    (t_pc # "envelope" /\ PlainEnvelope(t_in)) =>
        t_once = PayloadByPrecedence(t_in)

\* a value all of whose lists, at any depth, have at most max_rows elements
\* and all of whose strings have at most max_chars characters, or that many
\* followed by the truncation notice
RECURSIVE WithinLimits(_, _, _)
WithinLimits(x, max_rows, max_chars) ==
    CASE x.t = "dict" ->
           \A k \in DOMAIN x.v : WithinLimits(x.v[k], max_rows, max_chars)
      [] x.t = "list" ->
           /\ Len(x.v) <= max_rows
           /\ \A i \in 1..Len(x.v) : WithinLimits(x.v[i], max_rows, max_chars)
      [] x.t = "str" ->
           Len(x.v) > max_chars =>
              /\ Len(x.v) >= max_chars + 3
              /\ SubSeq(x.v, max_chars + 1, max_chars + 3)
                    = SubSeq(TextNotice(max_chars, 0), 1, 3)
      [] OTHER -> TRUE

\* C26: truncation is applied recursively: in the outcome of
\* _extract_mcp_content every list at any depth has at most the row limit
\* of elements and every string at any depth at most the character limit
\* of characters plus the notice, the fields next to a sliced row list and
\* the items of a sliced list included.
C26_TruncatedAtEveryDepth ==
    t_pc = "extracted" =>
        WithinLimits(t_twice, DefaultMaxRows, DefaultMaxChars)

(***************************************************************************)
(* MCPClient (main_old.py): JSON-RPC over streamable HTTP.                 *)
(*                                                                         *)
(* A JSON-RPC object is a record of the keys it carries.  A body is a      *)
(* sequence of lines; the form of a line is                                *)
(*   "blank"  empty after strip()                                          *)
(*   "data"   starts with "data: ", the payload follows                    *)
(*   "plain"  starts with "{" and ends with "}"                            *)
(*   "bare"   a JSON value that is not an object: truthy (5) or null       *)
(*   "other"  any other text ("event: message", ": ping")                  *)
(* and the payload of a line is an object ("obj"), a JSON value that is    *)
(* not an object ("scalar") or text that json.loads rejects ("bad").       *)
(***************************************************************************)
RpcObj(has_id, id, has_method, has_result, has_error) ==
    [has_id |-> has_id, id |-> id, has_method |-> has_method,
     has_result |-> has_result, has_error |-> has_error]

NoObj == RpcObj(FALSE, 0, FALSE, FALSE, FALSE)

Notification == RpcObj(FALSE, 0, TRUE, FALSE, FALSE)
UnknownObj == NoObj    \* {"jsonrpc": "2.0"}: neither id nor method
ResultResponse(i) == RpcObj(TRUE, i, FALSE, TRUE, FALSE)
ErrorResponse(i) == RpcObj(TRUE, i, FALSE, FALSE, TRUE)
BareResponse(i) == RpcObj(TRUE, i, FALSE, FALSE, FALSE)

Line(form, json, obj, truthy) ==
    [form |-> form, json |-> json, obj |-> obj, truthy |-> truthy]

\* the objects the tool server puts on the wire: ids of requests sent and
\* one id that no request of the session carries
WireObjs ==
    {Notification, UnknownObj, BareResponse(1),
     BareResponse(MaxRequests + 1), ErrorResponse(MaxRequests + 1)}
    \cup {ResultResponse(i) : i \in 1..MaxRequests}

WireLines ==
    {Line("data", "obj", o, TRUE) : o \in WireObjs}
    \cup {Line("plain", "obj", o, TRUE) :
             o \in {Notification, ResultResponse(1),
                    ErrorResponse(MaxRequests + 1)}}
    \cup {Line("data", "bad", NoObj, FALSE), Line("data", "scalar", NoObj, TRUE),
          Line("bare", "scalar", NoObj, TRUE), Line("bare", "scalar", NoObj, FALSE),
          Line("blank", "bad", NoObj, FALSE), Line("other", "bad", NoObj, FALSE)}

RECURSIVE SeqsUpTo(_, _)
SeqsUpTo(S, n) ==
    IF n = 0 THEN {<<>>}
    ELSE LET shorter == SeqsUpTo(S, n - 1) IN
         shorter \cup {Append(q, x) : q \in {r \in shorter : Len(r) = n - 1},
                                      x \in S}

ContentTypes == {"application/json", "text/event-stream", "text/plain"}

\* "text/event-stream" in content_type or "text/plain" in content_type
IsEventStream(content_type) ==
    content_type \in {"text/event-stream", "text/plain"}

HttpResponse(kind, status, content_type, lines) ==
    [kind |-> kind, status |-> status, content_type |-> content_type,
     lines |-> lines]

NoResponse == HttpResponse("none", 0, "", <<>>)

\* what the post may deliver: a body of at most max_lines lines under any
\* content type, an error status, or an exception of the transport
WireResponses(max_lines) ==
    {HttpResponse("http", 200, ct, b) :
         ct \in ContentTypes, b \in SeqsUpTo(WireLines, max_lines)}
    \cup {HttpResponse("http", 500, "application/json", <<>>),
          HttpResponse("timeout", 0, "", <<>>),
          HttpResponse("network", 0, "", <<>>)}

\* the local `result`: nothing, a dict, or a JSON value that is not a dict
NoResult == [tag |-> "none", obj |-> NoObj, truthy |-> FALSE, via |-> "none"]
ObjResult(o, via) == [tag |-> "obj", obj |-> o, truthy |-> TRUE, via |-> via]
\* a bare document: a truthy number, or null (result is None)
ScalarResult(truthy) ==
    [tag |-> IF truthy THEN "scalar" ELSE "none", obj |-> NoObj,
     truthy |-> truthy, via |-> IF truthy THEN "single_document" ELSE "none"]

NonBlank(lines) == SelectSeq(lines, LAMBDA l : l.form # "blank")

\* response.json() on the whole body: [ok, result]
ResponseJson(lines) ==
    LET nb == NonBlank(lines) IN
    IF Len(nb) = 1 /\ nb[1].form = "plain" /\ nb[1].json = "obj"
    THEN [ok |-> TRUE, result |-> ObjResult(nb[1].obj, "single_document")]
    ELSE IF Len(nb) = 1 /\ nb[1].form = "bare"
    THEN [ok |-> TRUE, result |-> ScalarResult(nb[1].truthy)]
    ELSE [ok |-> FALSE, result |-> NoResult]

\* the lines whose json_line is set and parsed, in body order
JsonLines(lines) ==
    SelectSeq(lines, LAMBDA l : l.form \in {"data", "plain"} /\ l.json # "bad")

\* `"method" in json_obj` raises TypeError when json_obj is a number
LineLoopRaises(lines) ==
    \E i \in 1..Len(JsonLines(lines)) : JsonLines(lines)[i].json = "scalar"

ObjsOf(ls) == [i \in 1..Len(ls) |-> ls[i].obj]

IsNotification(o) == o.has_method /\ ~o.has_id

Notifications(lines) ==
    SelectSeq(ObjsOf(JsonLines(lines)), IsNotification)

Responses(lines) ==
    SelectSeq(ObjsOf(JsonLines(lines)), LAMBDA o : o.has_id)

\* the position at which a `for ... if ...: break` loop over q stops, given
\* the positions whose item passes the test
FirstIndex(hits) == CHOOSE i \in hits : \A j \in hits : i <= j

\* positions of the responses whose id is the request id
Matching(responses, rid) ==
    {i \in 1..Len(responses) : responses[i].id = rid}

\* positions of the responses that carry result or error
Carrying(responses) ==
    {i \in 1..Len(responses) :
        responses[i].has_result \/ responses[i].has_error}

\* variant: the selection without its first loop (no id match)
SelectByContent(responses, rid) ==
        IF Carrying(responses) # {}
        THEN ObjResult(responses[FirstIndex(Carrying(responses))],
                       "first_with_result_or_error")
        ELSE IF Len(responses) > 0
        THEN ObjResult(responses[Len(responses)], "last_response")
        ELSE NoResult

\* variant: the selection without its second loop
SelectMatchOrLast(responses, rid) ==
        IF Matching(responses, rid) # {}
        THEN ObjResult(responses[FirstIndex(Matching(responses, rid))],
                       "exact_id_match")
        ELSE IF Len(responses) > 0
        THEN ObjResult(responses[Len(responses)], "last_response")
        ELSE NoResult

\* the three selection loops over `responses`
SelectResponse(responses, rid) ==
        IF Matching(responses, rid) # {}
        THEN ObjResult(responses[FirstIndex(Matching(responses, rid))],
                       "exact_id_match")
        ELSE IF Carrying(responses) # {}
        THEN ObjResult(responses[FirstIndex(Carrying(responses))],
                       "first_with_result_or_error")
        ELSE IF Len(responses) > 0
        THEN ObjResult(responses[Len(responses)], "last_response")
        ELSE NoResult

\* what _send_jsonrpc_request returns
RpcReturn(kind, error) == [kind |-> kind, error |-> error]

\* the body of the try block: [result, ret]
ParseAndSelect(resp, rid) ==
    LET is_event_stream == IsEventStream(resp.content_type)
        single == IF is_event_stream THEN [ok |-> FALSE, result |-> NoResult]
                  ELSE ResponseJson(resp.lines)
        scan == is_event_stream \/ ~single.ok \/ single.result.tag = "none"
        result == IF scan THEN SelectResponse(Responses(resp.lines), rid)
                  ELSE single.result
    IN  IF scan /\ LineLoopRaises(resp.lines)
        THEN [result |-> NoResult,
              ret |-> RpcReturn("failed", "MCP request failed: TypeError")]
        ELSE IF ~result.truthy
        THEN [result |-> result,
              ret |-> RpcReturn("no_response", "No response from MCP server")]
        ELSE IF result.tag = "scalar"
        THEN [result |-> result,
              ret |-> RpcReturn("failed", "MCP request failed: TypeError")]
        ELSE IF result.obj.has_error
        THEN [result |-> result, ret |-> RpcReturn("rpc_error", "result.error")]
        ELSE [result |-> result, ret |-> RpcReturn("ok", None)]

_send_jsonrpc_request(resp, rid) ==
    IF resp.kind # "http"
    THEN [result |-> NoResult,
          ret |-> RpcReturn("failed", "MCP request failed: " \o resp.kind)]
    ELSE IF resp.status >= 400
    THEN [result |-> NoResult,
          ret |-> RpcReturn("failed", "MCP request failed: HTTPStatusError")]
    ELSE ParseAndSelect(resp, rid)

\* variant: the counter is read but not advanced
SameId(id) == id

_get_next_id(id) == id + 1

InitRpc ==
    /\ ChatIdle
    /\ TruncIdle
    /\ request_id = 0
    /\ rpc_pc = "idle"
    /\ rpc_id = 0
    /\ rpc_resp = NoResponse
    /\ rpc_result = NoResult
    /\ rpc_ret = RpcReturn("none", None)
    /\ callers = <<>>
    /\ issued = <<>>

\* _send_jsonrpc_request up to `await client.post(...)`
RpcSend ==
    /\ rpc_pc \in {"idle", "returned"}
    /\ request_id < MaxRequests
    /\ request_id' = _get_next_id(request_id)
    /\ rpc_id' = request_id'
    /\ rpc_pc' = "awaiting"
    /\ rpc_resp' = NoResponse
    /\ rpc_result' = NoResult
    /\ rpc_ret' = RpcReturn("none", None)
    /\ UNCHANGED <<callers, issued, chat_vars, trunc_vars>>

\* the post completes (or raises) and the call runs to its return
RpcReceive ==
    /\ rpc_pc = "awaiting"
    /\ \E resp \in WireResponses(MaxLines) :
          LET r == _send_jsonrpc_request(resp, rpc_id) IN
          /\ rpc_resp' = resp
          /\ rpc_result' = r.result
          /\ rpc_ret' = r.ret
    /\ rpc_pc' = "returned"
    /\ UNCHANGED <<request_id, rpc_id, callers, issued, chat_vars, trunc_vars>>

NextRpc == RpcSend \/ RpcReceive

SpecRpc == InitRpc /\ [][NextRpc]_vars

(***************************************************************************)
(* Properties of the response selection, stated on the body received.      *)
(***************************************************************************)
\* the JSON objects of the body received, in body order
BodyObjects ==
    LET carries == SelectSeq(rpc_resp.lines,
                             LAMBDA l : /\ l.form \in {"data", "plain"}
                                        /\ l.json = "obj")
    IN  [i \in 1..Len(carries) |-> carries[i].obj]

\* the response candidates of the body received: the objects with an id
BodyCandidates == SelectSeq(BodyObjects, LAMBDA o : o.has_id)

\* the call returned on an event-stream body none of whose lines is a JSON
\* value other than an object
ReturnedMultiplexed ==
    /\ rpc_pc = "returned"
    /\ rpc_resp.kind = "http"
    /\ rpc_resp.status = 200
    /\ rpc_resp.content_type = "text/event-stream"
    /\ \A i \in 1..Len(rpc_resp.lines) : rpc_resp.lines[i].json # "scalar"

\* the call returned an object as the answer (a result or a JSON-RPC error)
Accepted ==
    /\ rpc_pc = "returned"
    /\ rpc_ret.kind \in {"ok", "rpc_error"}
    /\ rpc_result.tag = "obj"

\* C8: for a multiplexed body that holds a response with the request id,
\* with notifications (or anything else) before and after it, the object
\* selected is a response with the request id, never a notification.
C8_SelectsRequestId ==
    (/\ ReturnedMultiplexed
     /\ \E i \in 1..Len(BodyCandidates) : BodyCandidates[i].id = rpc_id)
    => /\ rpc_result.tag = "obj"
       /\ rpc_result.obj.has_id
       /\ rpc_result.obj.id = rpc_id
       /\ ~IsNotification(rpc_result.obj)
       /\ \E i \in 1..Len(BodyCandidates) : BodyCandidates[i] = rpc_result.obj

\* C8 witness: the second request; the body is a notification, the
\* response with the request id, a notification; the response is selected.
C8_Witness ==
    /\ ReturnedMultiplexed
    /\ rpc_id = 2
    /\ Len(BodyObjects) = 3
    /\ BodyObjects[1] = Notification
    /\ BodyObjects[2] = ResultResponse(2)
    /\ BodyObjects[3] = Notification
    /\ rpc_result.obj = ResultResponse(2)
    /\ rpc_ret.kind = "ok"

\* C9: with several response candidates in a multiplexed body the object
\* selected is the first candidate whose id is the request id; if there is
\* none, the first candidate in body order that carries result or error;
\* if there is none either, the last candidate.
C9_SelectionOrder ==
    (ReturnedMultiplexed /\ Len(BodyCandidates) >= 2)
    => LET c == BodyCandidates
           n == Len(c)
           Match(i) == c[i].id = rpc_id
           Carry(i) == c[i].has_result \/ c[i].has_error
           chosen ==
             IF \E i \in 1..n : Match(i)
             THEN CHOOSE i \in 1..n : Match(i) /\ \A j \in 1..(i - 1) : ~Match(j)
             ELSE IF \E i \in 1..n : Carry(i)
             THEN CHOOSE i \in 1..n : Carry(i) /\ \A j \in 1..(i - 1) : ~Carry(j)
             ELSE n
       IN  rpc_result.tag = "obj" /\ rpc_result.obj = c[chosen]

\* C9 witness: no candidate has the request id, the first candidate
\* carries neither result nor error, the second carries a result and is
\* selected although another candidate follows it.
C9_Witness ==
    /\ ReturnedMultiplexed
    /\ Len(BodyCandidates) = 3
    /\ \A i \in 1..3 : BodyCandidates[i].id # rpc_id
    /\ ~(BodyCandidates[1].has_result \/ BodyCandidates[1].has_error)
    /\ BodyCandidates[2].has_result
    /\ BodyCandidates[3] # BodyCandidates[2]
    /\ rpc_result.obj = BodyCandidates[2]
    /\ rpc_result.via = "first_with_result_or_error"

\* C10: every object accepted as the answer to the request with id r has
\* the id r, for single-document and for multiplexed bodies.
C10_AnswerHasRequestId ==
    Accepted => rpc_result.obj.has_id /\ rpc_result.obj.id = rpc_id

\* C22: when the body received holds no response object at all (only
\* notifications, lines that do not parse, or nothing), the call returns
\* the no-response outcome, and that outcome differs from what it returns
\* for a failure of the transport (exception of the post, error status).
C22_NoResponseIsDistinct ==
    (/\ rpc_pc = "returned"
     /\ rpc_resp.kind = "http"
     /\ rpc_resp.status = 200
     /\ \A i \in 1..Len(rpc_resp.lines) : rpc_resp.lines[i].json # "scalar"
     /\ BodyCandidates = <<>>) =>
        /\ rpc_ret = RpcReturn("no_response", "No response from MCP server")
        /\ \A resp \in {HttpResponse("http", 500, "application/json", <<>>),
                         HttpResponse("timeout", 0, "", <<>>),
                         HttpResponse("network", 0, "", <<>>)} :
              _send_jsonrpc_request(resp, rpc_id).ret # rpc_ret

\* C33: the call never takes a notification (an object with method and no
\* id) as the answer to a request, whether the body is parsed as a single
\* JSON document or as a multiplexed event stream, and wherever the
\* notification stands in the body.
C33_NotificationNeverAnswer ==
    (rpc_pc = "returned" /\ rpc_result.tag = "obj")
    => ~IsNotification(rpc_result.obj)

(***************************************************************************)
(* SpecIds: several coroutines (chat requests, /health, /mcp/tools) call   *)
(* _send_jsonrpc_request on the one MCPClient of mcp_registry.  They run   *)
(* on one event loop and switch only at an await: the statement            *)
(* request_id = self._get_next_id() and the building of the payload run    *)
(* without a switch, the post is the first await.                          *)
(***************************************************************************)
Callers == 1..MaxCallers

CallerState(cpc, id, ret) == [pc |-> cpc, id |-> id, ret |-> ret]

\* answers to the request with id rid: an exception of the transport, the
\* response as a single document, the response after a notification
IdResponses(rid) ==
    {HttpResponse("timeout", 0, "", <<>>),
     HttpResponse("http", 200, "application/json",
                  <<Line("plain", "obj", ResultResponse(rid), TRUE)>>),
     HttpResponse("http", 200, "text/event-stream",
                  <<Line("data", "obj", Notification, TRUE),
                    Line("data", "obj", ResultResponse(rid), TRUE)>>)}

InitIds ==
    /\ ChatIdle
    /\ TruncIdle
    /\ request_id = 0
    /\ rpc_pc = "idle"
    /\ rpc_id = 0
    /\ rpc_resp = NoResponse
    /\ rpc_result = NoResult
    /\ rpc_ret = RpcReturn("none", None)
    /\ callers = [c \in Callers |-> CallerState("idle", 0, "none")]
    /\ issued = <<>>

\* coroutine c enters _send_jsonrpc_request and runs to `await client.post`
CallerSend(c) ==
    /\ callers[c].pc = "idle"
    /\ Len(issued) < MaxIssued
    /\ request_id' = _get_next_id(request_id)
    /\ callers' = [callers EXCEPT ![c] = CallerState("awaiting", request_id',
                                                      "none")]
    /\ issued' = Append(issued, request_id')
    /\ UNCHANGED <<rpc_pc, rpc_id, rpc_resp, rpc_result, rpc_ret,
                   chat_vars, trunc_vars>>

\* the post of coroutine c completes (or raises); the call returns
CallerReturn(c) ==
    /\ callers[c].pc = "awaiting"
    /\ \E resp \in IdResponses(callers[c].id) :
          callers' = [callers EXCEPT ![c] =
                        CallerState("idle", callers[c].id,
                          _send_jsonrpc_request(resp, callers[c].id).ret.kind)]
    /\ UNCHANGED <<request_id, issued, rpc_pc, rpc_id, rpc_resp, rpc_result,
                   rpc_ret, chat_vars, trunc_vars>>

NextIds == \E c \in Callers : CallerSend(c) \/ CallerReturn(c)

SpecIds == InitIds /\ [][NextIds]_vars

\* C11: the ids of the requests sent through one client are strictly
\* increasing in the order they were issued, hence pairwise different, and
\* two calls in flight never hold the same id, however the coroutines
\* interleave.
C11_IdsUniqueIncreasing ==
    /\ \A i, j \in 1..Len(issued) : i < j => issued[i] < issued[j]
    /\ \A c, e \in DOMAIN callers :
          (c # e /\ callers[c].pc = "awaiting" /\ callers[e].pc = "awaiting")
          => callers[c].id # callers[e].id

\* C11 witness: coroutine 1 sent a request, coroutine 2 sent one while the
\* first was in flight, coroutine 1 returned and sent again while the
\* request of coroutine 2 was still in flight.
C11_Witness ==
    /\ Len(issued) = 3
    /\ callers[1].pc = "awaiting" /\ callers[1].id = issued[3]
    /\ callers[2].pc = "awaiting" /\ callers[2].id = issued[2]
    /\ callers[3] = CallerState("idle", 0, "none")

(***************************************************************************)
(* Outward events (StreamChunk).  Absent fields hold None, PyNone or <<>>. *)
(***************************************************************************)
StreamChunk(type) ==
    [type |-> type, tool_name |-> None, content |-> None, error |-> None,
     error_type |-> None, arguments |-> PyNone, tool_result |-> PyNone,
     tool_calls |-> <<>>]

\* variant: the text is not relayed verbatim
ContentChunkPadded(text) ==
    [StreamChunk("content") EXCEPT !.content = text \o " "]

ContentChunk(text) == [StreamChunk("content") EXCEPT !.content = text]
DoneChunk == StreamChunk("done")
ErrorChunk(text) == [StreamChunk("error") EXCEPT !.error = text]
ToolCallsChunk(tcs) == [StreamChunk("tool_calls") EXCEPT !.tool_calls = tcs]
ContextLengthChunk ==
    [StreamChunk("error") EXCEPT !.error = "context length: request smaller data",
                                 !.error_type = "context_length_exceeded"]
\* str.lower() on the letters that occur in error texts
UpperCase ==
    [c \in {"A", "B", "C", "D", "E", "F", "G", "H", "I", "J", "K", "L", "M",
            "N", "O", "P", "Q", "R", "S", "T", "U", "V", "W", "X", "Y", "Z"} |->
       CASE c = "A" -> "a" [] c = "B" -> "b" [] c = "C" -> "c" [] c = "D" -> "d"
         [] c = "E" -> "e" [] c = "F" -> "f" [] c = "G" -> "g" [] c = "H" -> "h"
         [] c = "I" -> "i" [] c = "J" -> "j" [] c = "K" -> "k" [] c = "L" -> "l"
         [] c = "M" -> "m" [] c = "N" -> "n" [] c = "O" -> "o" [] c = "P" -> "p"
         [] c = "Q" -> "q" [] c = "R" -> "r" [] c = "S" -> "s" [] c = "T" -> "t"
         [] c = "U" -> "u" [] c = "V" -> "v" [] c = "W" -> "w" [] c = "X" -> "x"
         [] c = "Y" -> "y" [] OTHER -> "z"]

\* variant: the text is matched as it is
AsIs(str) == str

RECURSIVE lower(_)
lower(str) ==
    IF Len(str) = 0 THEN ""
    ELSE LET c == SubSeq(str, 1, 1) IN
         (IF c \in DOMAIN UpperCase THEN UpperCase[c] ELSE c)
            \o lower(SubSeq(str, 2, Len(str)))

\* `sub in str`
Contains(str, sub) ==
    \E i \in 1..(Len(str) - Len(sub) + 1) :
       SubSeq(str, i, i + Len(sub) - 1) = sub

\* the except clause of stream_chat_with_tools: the event for str(e)
ExceptChunk(error_str) ==
    IF \/ Contains(lower(error_str), "context length")
       \/ Contains(lower(error_str), "maximum context length")
    THEN ContextLengthChunk
    ELSE ErrorChunk(error_str)

\* str(e) of what the model API raises: a failure of the connection, the
\* rejection of a request that is too long in two spellings, and an error
\* that names the context length by its code only
ErrorTexts ==
    {"Connection error.",
     "This model's maximum context length is 8192 tokens.",
     "Context Length exceeded",
     "Error code: 400 - context_length_exceeded"}

\* the event of the except clause for each of the error texts
ExceptChunks == [error_str \in ErrorTexts |-> ExceptChunk(error_str)]

ToolStartChunk(name, args) ==
    [StreamChunk("tool_start") EXCEPT !.tool_name = name,
                                      !.content = "Executing " \o name,
                                      !.arguments = args]
ToolProgressChunk(name) ==
    [StreamChunk("progress") EXCEPT !.tool_name = name,
                                    !.content = "Processing " \o name \o " via HTTP"]
ToolResultChunk(name, content, result) ==
    [StreamChunk("tool_result") EXCEPT
        !.tool_name = name,
        !.content = name \o " completed via HTTP",
        !.tool_result = PyDict([content |-> content, mcp_result |-> result]),
        !.error_type = IF content.t = "dict" /\ "_truncated" \in DOMAIN content.v
                          /\ Truthy(content.v["_truncated"])
                       THEN "data_truncated" ELSE None]
ToolErrorChunk(name, text) ==
    [StreamChunk("error") EXCEPT !.tool_name = name, !.error = text]

(***************************************************************************)
(* Tool-call accumulator (stream_chat_with_tools).                         *)
(* A fragment names an index and carries an id, a name piece and an        *)
(* arguments piece, each a string or None.                                 *)
(***************************************************************************)
Delta(index, id, name, arguments) ==
    [index |-> index, id |-> id, name |-> name, arguments |-> arguments]

EmptyCall == [id |-> "", type |-> "function",
              function |-> [name |-> "", arguments |-> ""]]

\* `if piece:` for a piece that is a string or None
Given(piece) == piece # None /\ piece # ""

\* while len(tool_calls) <= tool_call_delta.index: tool_calls.append({...})
PadTo(tcs, index) ==
    IF Len(tcs) <= index
    THEN tcs \o [i \in 1..(index + 1 - Len(tcs)) |-> EmptyCall]
    ELSE tcs

\* variant: a piece replaces what the record holds (= in place of +=)
ApplyDeltaAssign(tcs, d) ==
    LET padded == PadTo(tcs, d.index)
        old == padded[d.index + 1]
        new == [id |-> IF Given(d.id) THEN d.id ELSE old.id,
                type |-> old.type,
                function |->
                   [name |-> IF Given(d.name) THEN d.name
                             ELSE old.function.name,
                    arguments |-> IF Given(d.arguments) THEN d.arguments
                                  ELSE old.function.arguments]]
    IN  [padded EXCEPT ![d.index + 1] = new]

\* variant: a fragment with an id opens a record at the end of the buffer,
\* a fragment without one adds to the record opened last
ApplyDeltaToLast(tcs, d) ==
    LET opened == IF Given(d.id) \/ tcs = <<>> THEN Append(tcs, EmptyCall)
                  ELSE tcs
        old == opened[Len(opened)]
        new == [id |-> IF Given(d.id) THEN d.id ELSE old.id,
                type |-> old.type,
                function |->
                   [name |-> IF Given(d.name)
                             THEN old.function.name \o d.name
                             ELSE old.function.name,
                    arguments |-> IF Given(d.arguments)
                                  THEN old.function.arguments \o d.arguments
                                  ELSE old.function.arguments]]
    IN  [opened EXCEPT ![Len(opened)] = new]

\* variant: an id piece is added to the id the record holds (+= in place
\* of =)
ApplyDeltaAppendId(tcs, d) ==
    LET padded == PadTo(tcs, d.index)
        old == padded[d.index + 1]
        new == [id |-> IF Given(d.id) THEN old.id \o d.id ELSE old.id,
                type |-> old.type,
                function |->
                   [name |-> IF Given(d.name)
                             THEN old.function.name \o d.name
                             ELSE old.function.name,
                    arguments |-> IF Given(d.arguments)
                                  THEN old.function.arguments \o d.arguments
                                  ELSE old.function.arguments]]
    IN  [padded EXCEPT ![d.index + 1] = new]

\* the body of `for tool_call_delta in delta.tool_calls`
ApplyDelta(tcs, d) ==
    LET padded == PadTo(tcs, d.index)
        old == padded[d.index + 1]
        new == [id |-> IF Given(d.id) THEN d.id ELSE old.id,
                type |-> old.type,
                function |->
                   [name |-> IF Given(d.name)
                             THEN old.function.name \o d.name
                             ELSE old.function.name,
                    arguments |-> IF Given(d.arguments)
                                  THEN old.function.arguments \o d.arguments
                                  ELSE old.function.arguments]]
    IN  [padded EXCEPT ![d.index + 1] = new]

RECURSIVE ApplyDeltas(_, _)
ApplyDeltas(tcs, ds) ==
    IF ds = <<>> THEN tcs
    ELSE ApplyDeltas(ApplyDelta(tcs, Head(ds)), Tail(ds))

Chunk(has_choice, content, deltas, finish_reason) ==
    [has_choice |-> has_choice, content |-> content, deltas |-> deltas,
     finish_reason |-> finish_reason]

\* variant: the generator goes on after the done event of "stop"
ReturnsOnToolCalls(finish_reason) == finish_reason = "tool_calls"

\* the generator returns right after the event of these finish reasons
ReturnsOnFinish(finish_reason) == finish_reason \in {"tool_calls", "stop"}

\* variant: finish reason "stop" hands over a non-empty buffer as well
ProcessChunkFlushOnStop(tcs, chunk) ==
    IF ~chunk.has_choice
    THEN [tool_calls |-> tcs, events |-> <<>>, finish |-> None]
    ELSE LET after == ApplyDeltas(tcs, chunk.deltas)
             text == IF Given(chunk.content)
                     THEN <<ContentChunk(chunk.content)>> ELSE <<>>
             fin == CASE chunk.finish_reason = "tool_calls" ->
                            <<ToolCallsChunk(after)>>
                      [] chunk.finish_reason = "stop" ->
                            IF after # <<>> THEN <<ToolCallsChunk(after)>>
                            ELSE <<DoneChunk>>
                      [] OTHER -> <<>>
         IN  [tool_calls |-> after, events |-> text \o fin,
              finish |-> IF fin # <<>> THEN chunk.finish_reason ELSE None]

\* one iteration of `async for chunk in stream`:
\* the buffer after it and the events it yields
ProcessChunk(tcs, chunk) ==
    IF ~chunk.has_choice
    THEN [tool_calls |-> tcs, events |-> <<>>, finish |-> None]
    ELSE LET after == ApplyDeltas(tcs, chunk.deltas)
             text == IF Given(chunk.content)
                     THEN <<ContentChunk(chunk.content)>> ELSE <<>>
             fin == CASE chunk.finish_reason = "tool_calls" ->
                            <<ToolCallsChunk(after)>>
                      [] chunk.finish_reason = "stop" -> <<DoneChunk>>
                      [] OTHER -> <<>>
         IN  [tool_calls |-> after, events |-> text \o fin,
              finish |-> IF fin # <<>> THEN chunk.finish_reason ELSE None]

(***************************************************************************)
(* Tool server answers to tools/list and tools/call (StreamingMCPClient).  *)
(* A data line carries an object ("obj"), a number ("scalar") or text that *)
(* json.loads rejects ("bad").                                             *)
(***************************************************************************)
Tool(name, has_inputSchema) ==
    [name |-> name, has_inputSchema |-> has_inputSchema]

DataLine(json, jsonrpc, has_result, has_tools, tools, result) ==
    [json |-> json, jsonrpc |-> jsonrpc, has_result |-> has_result,
     has_tools |-> has_tools, tools |-> tools, result |-> result]

BadLine == DataLine("bad", FALSE, FALSE, FALSE, <<>>, PyNone)
ScalarLine == DataLine("scalar", FALSE, FALSE, FALSE, <<>>, PyNone)
NotifLine == DataLine("obj", TRUE, FALSE, FALSE, <<>>, PyNone)
ToolsLine(tools) == DataLine("obj", TRUE, TRUE, TRUE, tools, PyNone)
ResultLine(result) == DataLine("obj", TRUE, TRUE, FALSE, <<>>, result)
ErrorLine == DataLine("obj", TRUE, FALSE, FALSE, <<>>, PyNone)

\* kind "http" with a status, or the exception the post raises;
\* sse: "event: message" in text and "data: " in text
ServerResponse(kind, status, sse, lines) ==
    [kind |-> kind, status |-> status, sse |-> sse, lines |-> lines]

\* variant: the loop goes on to the last line it looks for
LastHit(lines, hits) ==
    LET stops == hits \cup {i \in 1..Len(lines) : lines[i].json = "scalar"}
    IN  IF stops = {} THEN [hit |-> "none", at |-> 0]
        ELSE LET i == CHOOSE k \in stops : \A j \in stops : k >= j
             IN  IF lines[i].json = "scalar" THEN [hit |-> "raise", at |-> i]
                 ELSE [hit |-> "found", at |-> i]

\* where the loop over the data lines stops: at the first line of `hits`
\* (the positions of the lines it looks for) or at the first line on which
\* the `in` test raises, whichever comes first
FirstHit(lines, hits) ==
    LET stops == hits \cup {i \in 1..Len(lines) : lines[i].json = "scalar"}
    IN  IF stops = {} THEN [hit |-> "none", at |-> 0]
        ELSE LET i == CHOOSE k \in stops : \A j \in stops : k <= j
             IN  IF lines[i].json = "scalar" THEN [hit |-> "raise", at |-> i]
                 ELSE [hit |-> "found", at |-> i]

\* "id" of the JSON-RPC payload of tools/list and of tools/call
ToolsListId == 1
ToolsCallId == 1

list_tools(cache, resp) ==
    LET HasTools(l) == l.json = "obj" /\ l.has_result /\ l.has_tools
        SseTools(l) == HasTools(l) /\ l.jsonrpc
    IN  IF cache # None THEN cache
        ELSE IF resp.kind # "http" \/ resp.status # 200 THEN <<>>
        ELSE IF resp.sse
        THEN LET h == FirstHit(resp.lines,
                                 {i \in 1..Len(resp.lines) :
                                     SseTools(resp.lines[i])}) IN
             IF h.hit = "found" THEN resp.lines[h.at].tools ELSE <<>>
        ELSE IF Len(resp.lines) = 1 /\ HasTools(resp.lines[1])
        THEN resp.lines[1].tools
        ELSE <<>>

\* list_tools() returns a catalog it read from the answer, rather than the
\* [] of its last line (the post raised, a status other than 200, a body in
\* which no catalog is found)
CatalogFound(resp) ==
    LET HasTools(l) == l.json = "obj" /\ l.has_result /\ l.has_tools
        SseTools(l) == HasTools(l) /\ l.jsonrpc
    IN  /\ resp.kind = "http"
        /\ resp.status = 200
        /\ IF resp.sse
           THEN FirstHit(resp.lines,
                         {i \in 1..Len(resp.lines) :
                             SseTools(resp.lines[i])}).hit = "found"
           ELSE Len(resp.lines) = 1 /\ HasTools(resp.lines[1])

\* the event that ends stream_tool_execution on the HTTP fallback path
ToolOutcome(tool_name, resp) ==
    LET SseResult(l) == l.json = "obj" /\ l.has_result /\ l.jsonrpc
        Result(l) == ToolResultChunk(tool_name, _extract_mcp_content(l.result),
                                     l.result)
    IN  IF resp.kind # "http" THEN ToolErrorChunk(tool_name, resp.kind)
        ELSE IF resp.status # 200
        THEN ToolErrorChunk(tool_name, "HTTP call failed")
        ELSE IF resp.sse
        THEN LET h == FirstHit(resp.lines,
                                 {i \in 1..Len(resp.lines) :
                                     SseResult(resp.lines[i])}) IN
             CASE h.hit = "found" -> Result(resp.lines[h.at])
               [] h.hit = "raise" ->
                    ToolErrorChunk(tool_name, "argument of type 'int' is not iterable")
               [] OTHER ->
                    ToolErrorChunk(tool_name, "No valid result found in SSE response")
        ELSE LET doc == resp.lines[1] IN
             CASE doc.json = "bad" ->
                    ToolErrorChunk(tool_name, "Failed to parse JSON response")
               [] doc.json = "scalar" ->
                    ToolErrorChunk(tool_name, "argument of type 'int' is not iterable")
               [] doc.has_result -> Result(doc)
               [] OTHER -> ToolErrorChunk(tool_name, "No result in response")

(***************************************************************************)
(* POST /chat: generate_streaming_response (main.py).                      *)
(***************************************************************************)
FunctionModels ==
    {"openai/gpt-4o-mini", "openai/gpt-4o", "openai/gpt-3.5-turbo",
     "anthropic/claude-3.5-sonnet", "anthropic/claude-3-opus"}

model_supports_functions(model) == model \in FunctionModels

Message(role, content, tcs, tool_call_id) ==
    [role |-> role, content |-> content, tool_calls |-> tcs,
     tool_call_id |-> tool_call_id]

system_message == Message("system", <<"system prompt">>, <<>>, None)
RequestMessages == <<Message("user", <<"hi">>, <<>>, None)>>

\* json.loads on an accumulated arguments string: the documents that parse
ArgumentDocs ==
    ("{}" :> EmptyDict) @@ ("{\"limit\":10}" :> PyDict([limit |-> PyInt(10)]))

IsBlank(str) == str \in {"", " ", "  "}

\* function_args of a tool call: {} for a blank string and on a parse error
ParseArguments(str) ==
    IF IsBlank(str) THEN [ok |-> TRUE, args |-> EmptyDict]
    ELSE IF str \in DOMAIN ArgumentDocs
    THEN [ok |-> TRUE, args |-> ArgumentDocs[str]]
    ELSE [ok |-> FALSE, args |-> EmptyDict]

\* self._format_tool_result_for_display(...) inside the nested coroutine:
\* the name `self` is not bound there, the call raises NameError
FormatCall(tool_result) ==
    [ok |-> FALSE, error |-> "name 'self' is not defined", content |-> <<>>]

\* variant: every generation's tool_calls chunk starts a batch
HandlesAlways(g) == TRUE

\* only the loop over the first generation looks for the tool_calls chunk;
\* the loops over the follow-up and the tool-less generation forward all
HandlesToolCalls(g) == g = "first"

\* tools argument of the follow-up generation
FollowUpTools(tools) == <<>>

MaxRounds == 7      \* cap of the batch counter

Last(q) == q[Len(q)]
Front(q) == SubSeq(q, 1, Len(q) - 1)

ChatUnchanged ==
    UNCHANGED <<trunc_vars, rpc_vars, connected, chats, tool_resp, relay>>

InitChat ==
    /\ pc = "start"
    /\ client_ok \in BOOLEAN
    /\ api_key \in BOOLEAN
    /\ request_model \in {"openai/gpt-4o-mini", "qwen/qwen-2.5-7b-instruct"}
    /\ tools_cache = None
    /\ mcp_tools = <<>>
    /\ messages = <<>>
    /\ gen = None
    /\ gen_tools = <<>>
    /\ chunk_count = 0
    /\ tool_calls = <<>>
    /\ batch_tool_calls = <<>>
    /\ call_k = 0
    /\ function_args = EmptyDict
    /\ tool_results = <<>>
    /\ out = <<>>
    /\ gens = <<>>
    /\ rounds = 0
    /\ invoked = <<>>
    /\ frags = <<>>
    /\ texts = <<>>
    /\ fetches = <<>>
    /\ connected = TRUE
    /\ chats = <<>>
    /\ ToolIdle
    /\ RelayIdle

\* if streaming_openrouter_client is None: one error event, return
CheckClient ==
    /\ pc = "start"
    /\ IF client_ok
       THEN pc' = "list_tools" /\ out' = out
       ELSE /\ pc' = "closed"
            /\ out' = Append(out, ErrorChunk("OpenRouter client not initialized"))
    /\ UNCHANGED <<client_ok, api_key, request_model, tools_cache, fetches,
                   mcp_tools,
                   messages, gen, gen_tools, chunk_count, tool_calls,
                   batch_tool_calls, call_k, function_args, tool_results,
                   gens, rounds, invoked, frags, texts>>
    /\ ChatUnchanged

\* mcp_tools = await list_tools(); messages; the choice of the branch
ListToolsOf(Resps) ==
    /\ pc = "list_tools"
    /\ \E resp \in Resps :
          LET tools == list_tools(tools_cache, resp)
              with_tools == model_supports_functions(request_model)
                            /\ tools # <<>>
          IN  /\ mcp_tools' = tools
              /\ fetches' = Append(fetches,
                                   [id |-> ToolsListId,
                                    cached |-> tools_cache # None,
                                    found |-> tools_cache # None
                                              \/ CatalogFound(resp),
                                    tools |-> tools])
              /\ gen' = IF with_tools THEN "first" ELSE "plain"
              /\ gen_tools' = IF with_tools THEN tools ELSE <<>>
    /\ messages' = <<system_message>> \o RequestMessages
    /\ pc' = "gen_start"
    /\ chunk_count' = 0
    /\ tool_calls' = <<>>
    /\ UNCHANGED <<client_ok, api_key, request_model, tools_cache,
                   batch_tool_calls, call_k, function_args, tool_results, out,
                   gens, rounds, invoked, frags, texts>>
    /\ ChatUnchanged

\* The controller receives the events `evs` of the running generation;
\* `fin` is None while the generator goes on, else how it ended.
Deliver(evs, fin) ==
    IF /\ HandlesToolCalls(gen)
       /\ evs # <<>>
       /\ Last(evs).type = "tool_calls"
    THEN \* chunk.type == "tool_calls": the batch starts
         /\ rounds < MaxRounds
         /\ out' = out \o Front(evs)
         /\ batch_tool_calls' = Last(evs).tool_calls
         /\ tool_results' = <<>>
         /\ call_k' = 1
         /\ rounds' = rounds + 1
         /\ gens' = Append(gens, [which |-> gen, finish |-> fin])
         /\ pc' = "batch"
    ELSE /\ out' = out \o evs
         /\ gens' = IF fin = None THEN gens
                    ELSE Append(gens, [which |-> gen, finish |-> fin])
         /\ pc' = IF fin = None THEN "gen_stream" ELSE "closed"
         /\ UNCHANGED <<batch_tool_calls, tool_results, call_k, rounds>>

\* stream_chat_with_tools up to `await ...create(**kwargs)`
GenStartOf(Outcomes) ==
    /\ pc = "gen_start"
    /\ IF ~api_key
       THEN Deliver(<<ErrorChunk("OpenRouter API key not configured")>>, "no_key")
       ELSE IF \E i \in 1..Len(gen_tools) : ~gen_tools[i].has_inputSchema
       THEN \* ValueError leaves the generator; the controller reports it
            /\ out' = Append(out, ErrorChunk("Tool must have inputSchema"))
            /\ gens' = Append(gens, [which |-> gen, finish |-> "convert_error"])
            /\ pc' = "closed"
            /\ UNCHANGED <<batch_tool_calls, tool_results, call_k, rounds>>
       ELSE \E o \in Outcomes :
              IF o = "ok" THEN Deliver(<<>>, None)
              ELSE Deliver(<<ExceptChunks[o]>>, o)
    /\ UNCHANGED <<client_ok, api_key, request_model, tools_cache, fetches,
                   mcp_tools,
                   messages, gen, gen_tools, chunk_count, tool_calls,
                   function_args, invoked, frags, texts>>
    /\ ChatUnchanged

\* one chunk of the model stream
GenChunkOf(Chunks) ==
    /\ pc = "gen_stream"
    /\ chunk_count < MaxChunks
    /\ \E chunk \in Chunks :
          LET r == ProcessChunk(tool_calls, chunk)
              ended == r.finish # None /\ ReturnsOnFinish(r.finish)
          IN  /\ tool_calls' = r.tool_calls
              /\ frags' = frags \o chunk.deltas
              /\ texts' = IF chunk.has_choice /\ chunk.content \notin {None, ""}
                          THEN Append(texts, chunk.content) ELSE texts
              /\ Deliver(r.events, IF ended THEN r.finish ELSE None)
    /\ chunk_count' = chunk_count + 1
    /\ UNCHANGED <<client_ok, api_key, request_model, tools_cache, fetches,
                   mcp_tools,
                   messages, gen, gen_tools, function_args, invoked>>
    /\ ChatUnchanged

\* the model stream is exhausted without a handled finish reason
GenEnd ==
    /\ pc = "gen_stream"
    /\ Deliver(<<DoneChunk>>, "end")
    /\ UNCHANGED <<client_ok, api_key, request_model, tools_cache, fetches,
                   mcp_tools,
                   messages, gen, gen_tools, chunk_count, tool_calls,
                   function_args, invoked, frags, texts>>
    /\ ChatUnchanged

\* the model stream raises (network error, timeout)
GenRaise ==
    /\ pc = "gen_stream"
    /\ \E error_str \in ErrorTexts :
          Deliver(<<ExceptChunks[error_str]>>, error_str)
    /\ UNCHANGED <<client_ok, api_key, request_model, tools_cache, fetches,
                   mcp_tools,
                   messages, gen, gen_tools, chunk_count, tool_calls,
                   function_args, invoked, frags, texts>>
    /\ ChatUnchanged

\* variant: the loop takes the calls from the end of the list
CallAtReversed(tcs, k) == tcs[Len(tcs) + 1 - k]

\* `for tool_call in tool_calls`: the call of the k-th pass of the loop
CallAt(tcs, k) == tcs[k]

\* next tool call of the batch: arguments, then the tool_start event
ToolStart ==
    /\ pc = "batch"
    /\ call_k <= Len(batch_tool_calls)
    /\ LET tool_call == CallAt(batch_tool_calls, call_k)
           args == ParseArguments(tool_call.function.arguments).args
       IN  /\ function_args' = args
           /\ out' = Append(out, ToolStartChunk(tool_call.function.name, args))
    /\ pc' = "tool_progress"
    /\ UNCHANGED <<client_ok, api_key, request_model, tools_cache, fetches,
                   mcp_tools,
                   messages, gen, gen_tools, chunk_count, tool_calls,
                   batch_tool_calls, call_k, tool_results, gens, rounds,
                   invoked, frags, texts>>
    /\ ChatUnchanged

\* _get_session() returns None: the progress event of the HTTP fallback
ToolProgress ==
    /\ pc = "tool_progress"
    /\ out' = Append(out,
                 ToolProgressChunk(
                     CallAt(batch_tool_calls, call_k).function.name))
    /\ pc' = "tool_http"
    /\ UNCHANGED <<client_ok, api_key, request_model, tools_cache, fetches,
                   mcp_tools,
                   messages, gen, gen_tools, chunk_count, tool_calls,
                   batch_tool_calls, call_k, function_args, tool_results,
                   gens, rounds, invoked, frags, texts>>
    /\ ChatUnchanged

\* the post to the tool server completes or raises; the last event of the
\* call, and what the controller does with it
ToolHttpOf(Resps) ==
    /\ pc = "tool_http"
    /\ \E resp \in Resps :
          LET tool_call == CallAt(batch_tool_calls, call_k)
              ev == ToolOutcome(tool_call.function.name, resp)
              fmt == FormatCall(ev.tool_result)
          IN  IF ev.type = "tool_result" /\ ~fmt.ok
              THEN /\ out' = out \o <<ev, ErrorChunk(fmt.error)>>
                   /\ pc' = "closed"
                   /\ UNCHANGED <<tool_results, call_k>>
              ELSE /\ out' = Append(out, ev)
                   /\ tool_results' =
                        IF ev.type = "tool_result"
                        THEN Append(tool_results,
                                    Message("tool", fmt.content, <<>>,
                                            tool_call.id))
                        ELSE tool_results
                   /\ call_k' = call_k + 1
                   /\ pc' = "batch"
    /\ invoked' = Append(invoked,
                     [id |-> ToolsCallId,
                      name |-> CallAt(batch_tool_calls, call_k).function.name,
                      arguments |-> function_args])
    /\ UNCHANGED <<client_ok, api_key, request_model, tools_cache, fetches,
                   mcp_tools,
                   messages, gen, gen_tools, chunk_count, tool_calls,
                   batch_tool_calls, function_args, gens, rounds, frags, texts>>
    /\ ChatUnchanged

\* after the last call: messages_with_results and the follow-up generation
BatchDone ==
    /\ pc = "batch"
    /\ call_k > Len(batch_tool_calls)
    /\ messages' = messages
                     \o <<Message("assistant", <<>>, batch_tool_calls, None)>>
                     \o tool_results
    /\ gen' = "followup"
    /\ gen_tools' = FollowUpTools(mcp_tools)
    /\ tool_calls' = <<>>
    /\ chunk_count' = 0
    /\ pc' = "gen_start"
    /\ UNCHANGED <<client_ok, api_key, request_model, tools_cache, fetches,
                   mcp_tools,
                   batch_tool_calls, call_k, function_args, tool_results, out,
                   gens, rounds, invoked, frags, texts>>
    /\ ChatUnchanged

(***************************************************************************)
(* What the model and the tool server may answer in Spec.                  *)
(***************************************************************************)
CallIds == [i \in 0..9 |-> "call_" \o DigitChars[i + 1]]

\* per index the whole call in one fragment, and call 0 with the head of
\* its arguments only
ChatDeltas ==
    {Delta(i, CallIds[i], "list_items", "{}") : i \in 0..MaxIndex}
    \cup {Delta(0, CallIds[0], "list_items", "{")}

FinishReasons == {"stop", "tool_calls", "length"}

\* a chunk without choices, text, one fragment, a bare finish reason, a
\* chunk that carries text, the tail of the arguments of call 0 and the
\* finish reason together, and a chunk that carries text and "stop"
ChatChunks ==
    {Chunk(FALSE, None, <<>>, None), Chunk(TRUE, "Hello", <<>>, None)}
    \cup {Chunk(TRUE, None, <<d>>, None) : d \in ChatDeltas}
    \cup {Chunk(TRUE, None, <<>>, f) : f \in FinishReasons}
    \cup {Chunk(TRUE, "Hello", <<Delta(0, None, None, "}")>>, "tool_calls"),
          Chunk(TRUE, " world", <<>>, "stop")}

CreateOutcomes == {"ok"} \cup ErrorTexts

Catalogs == {<<>>, <<Tool("list_items", TRUE)>>, <<Tool("list_items", FALSE)>>}

CatalogResponses ==
    {ServerResponse("timeout", 0, FALSE, <<>>),
     ServerResponse("http", 500, FALSE, <<>>),
     ServerResponse("http", 200, TRUE, <<NotifLine>>),
     ServerResponse("http", 200, FALSE, <<BadLine>>)}
    \cup {ServerResponse("http", 200, TRUE, <<NotifLine, ToolsLine(c)>>) :
            c \in Catalogs}
    \cup {ServerResponse("http", 200, FALSE, <<ToolsLine(c)>>) : c \in Catalogs}

TextEnvelope ==
    PyDict([content |->
              PyList(<<PyDict([type |-> PyStr(<<"t", "e", "x", "t">>),
                               text |-> PyStr(JsonDumps(PyList(Rows(2))))])>>)])

\* a list of rows longer than the row limit, as JSON text
ListEnvelope ==
    PyDict([content |->
              PyList(<<PyDict([type |-> PyStr(<<"t", "e", "x", "t">>),
                               text |-> PyStr(JsonDumps(
                                   PyList(Rows(DefaultMaxRows + 1))))])>>)])

RowsEnvelope ==
    PyDict([structuredContent |->
              PyDict([data |-> PyList(Rows(DefaultMaxRows + 1)),
                      count |-> PyInt(DefaultMaxRows + 1)])])

ToolResponses ==
    {ServerResponse("timeout", 0, FALSE, <<>>),
     ServerResponse("http", 500, FALSE, <<>>),
     ServerResponse("http", 200, TRUE, <<NotifLine, BadLine>>),
     ServerResponse("http", 200, FALSE, <<ErrorLine>>),
     ServerResponse("http", 200, TRUE, <<NotifLine, ResultLine(RowsEnvelope)>>),
     ServerResponse("http", 200, FALSE, <<ResultLine(TextEnvelope)>>),
     ServerResponse("http", 200, FALSE, <<ResultLine(ListEnvelope)>>)}

ListTools == ListToolsOf(CatalogResponses)
GenStart == GenStartOf(CreateOutcomes)
GenChunk == GenChunkOf(ChatChunks)
ToolHttp == ToolHttpOf(ToolResponses)

Init == InitChat /\ TruncIdle /\ RpcIdle

Next ==
    \/ CheckClient
    \/ ListTools
    \/ GenStart
    \/ GenChunk
    \/ GenEnd
    \/ GenRaise
    \/ ToolStart
    \/ ToolProgress
    \/ ToolHttp
    \/ BatchDone

Spec == Init /\ [][Next]_vars

(***************************************************************************)
(* Properties of the outward stream of one /chat request.                  *)
(***************************************************************************)
\* a tool invocation's failure report: an error event that names the tool
IsToolError(e) == e.type = "error" /\ e.tool_name # None

\* the events that end a stream: done, and an error that names no tool
IsTerminal(e) == e.type = "done" \/ (e.type = "error" /\ e.tool_name = None)

\* positions of the events of a type; of the tool errors; of the terminals
OfType(type) == {i \in 1..Len(out) : out[i].type = type}
ToolErrors == {i \in 1..Len(out) : IsToolError(out[i])}
Terminals == {i \in 1..Len(out) : IsTerminal(out[i])}

\* C1 as stated: an event of type done or error is never followed by
\* another event, so a stream holds at most one and it is the last.
C1_DoneOrErrorIsLast ==
    \A i \in 1..Len(out) : out[i].type \in {"done", "error"} => i = Len(out)

\* C1: a done event, or an error event that names no tool, is never
\* followed by another event, so a stream holds at most one such event and
\* it is the last; the error event of a failed tool invocation names its
\* tool and the stream goes on after it.
C1_TerminalIsLast ==
    \A i \in 1..Len(out) : IsTerminal(out[i]) => i = Len(out)

\* C1 witness: a tool invocation failed, its error event was followed by
\* the follow-up generation, and the stream closed with done.
C1_Witness ==
    /\ pc = "closed"
    /\ \E i \in 1..(Len(out) - 1) : IsToolError(out[i])
    /\ \E g \in 1..Len(gens) : gens[g].which = "followup"
    /\ Last(out).type = "done"

\* C2: every stream that closes has an event of type done or error as its
\* last event.
C2_ClosedEndsWithDoneOrError ==
    pc = "closed" => Len(out) > 0 /\ Last(out).type \in {"done", "error"}

\* C3: when every tool invocation of the batch succeeded, each call has a
\* tool_result event and a tool message in the conversation, the follow-up
\* generation ran, and if it finished normally the stream ends with done
\* and holds no error event.
C3_SuccessfulBatch ==
    LET results == OfType("tool_result")
        errors == OfType("error")
        tools == SelectSeq(messages, LAMBDA m : m.role = "tool")
    IN  (/\ pc = "closed"
         /\ Len(invoked) > 0
         /\ Cardinality(results) = Len(invoked)
         /\ ToolErrors = {})
        => /\ Cardinality(results) = Len(batch_tool_calls)
           /\ Len(tools) = Len(batch_tool_calls)
           /\ \E g \in 1..Len(gens) : gens[g].which = "followup"
           /\ Last(gens).finish \in {"stop", "end"}
                 => Last(out).type = "done" /\ errors = {}

\* C12: in the message list of the follow-up generation the assistant
\* message that carries the tool calls is immediately followed by exactly
\* one tool message per call, in call order, each with the tool_call_id of
\* its call, and nothing else follows.
C12_ToolMessagesFollowCalls ==
    gen = "followup"
    => \E a \in 1..Len(messages) :
          /\ messages[a].role = "assistant"
          /\ messages[a].tool_calls = batch_tool_calls
          /\ Len(messages) = a + Len(batch_tool_calls)
          /\ \A i \in 1..Len(batch_tool_calls) :
                /\ messages[a + i].role = "tool"
                /\ messages[a + i].tool_call_id = batch_tool_calls[i].id

\* C13: a failed tool invocation shows tool_start and then error for its
\* call, the remaining calls of the batch are executed and the follow-up
\* generation is started, and the list of messages of that generation
\* holds a tool message whose content is the error text.
C13_FailedCallReported ==
    \A i \in ToolErrors :
       /\ \E j \in 1..(i - 1) :
             /\ out[j].type = "tool_start"
             /\ out[j].tool_name = out[i].tool_name
             /\ \A k \in (j + 1)..(i - 1) : out[k].type = "progress"
       /\ (pc = "closed" /\ OfType("tool_result") = {})
             => /\ Len(invoked) = Len(batch_tool_calls)
                /\ \E g \in 1..Len(gens) : gens[g].which = "followup"
       /\ gen = "followup"
             => \E m \in 1..Len(messages) :
                   /\ messages[m].role = "tool"
                   /\ messages[m].content = <<out[i].error>>

\* C14: when the arguments of a call arrived in several fragments and the
\* tool returned a list of n rows, n above the row limit, the tool_result
\* event carries 50 rows with _truncated and _original_count = n, and the
\* call has its tool message.
C14_TruncatedRowsInToolMessage ==
    \A i \in OfType("tool_result") :
       LET raw == _unwrap_mcp_structure(out[i].tool_result.v["mcp_result"])
           content == out[i].tool_result.v["content"]
           split == \E a, b \in 1..Len(frags) :
                       /\ a < b
                       /\ frags[a].index = frags[b].index
                       /\ Given(frags[a].arguments)
                       /\ Given(frags[b].arguments)
       IN  (split /\ raw.t = "list" /\ Len(raw.v) > DefaultMaxRows)
           => /\ content.t = "dict"
              /\ Len(content.v["data"].v) = DefaultMaxRows
              /\ content.v["_truncated"] = PyBool(TRUE)
              /\ content.v["_original_count"] = PyInt(Len(raw.v))
              /\ Len(tool_results)
                   >= Cardinality({j \in OfType("tool_result") : j <= i})

\* C15: when the only generation of a request consumed the non-empty
\* content pieces c1..cn and no tool-call fragment and finished with stop,
\* the outward stream is content(c1), ..., content(cn), done: the texts
\* unmodified and in order, and nothing else.
C15_ContentRelayedThenDone ==
    (/\ pc = "closed"
     /\ Len(gens) = 1
     /\ gens[1].finish = "stop"
     /\ frags = <<>>)
    => /\ Len(out) = Len(texts) + 1
       /\ \A i \in 1..Len(texts) :
             /\ out[i].type = "content"
             /\ out[i].content = texts[i]
       /\ out[Len(out)].type = "done"

\* C15 witness: the model emitted "Hello", then " world" with the finish
\* reason stop; the stream is the two content events and done.
C15_Witness ==
    /\ pc = "closed"
    /\ gens = <<[which |-> "first", finish |-> "stop"]>>
    /\ frags = <<>>
    /\ texts = <<"Hello", " world">>
    /\ Len(out) = 3
    /\ out[3].type = "done"

\* C16: when the retrieval of the tool catalog fails (the tool server is
\* not reached, answers with a status other than 200, or with a body in
\* which no catalog is found), no model generation is started and the
\* outward stream of the request is a single error event.
C16_CatalogFailureIsError ==
    (fetches # <<>> /\ ~fetches[1].found) =>
        /\ pc # "gen_stream"
        /\ pc = "closed" => (Len(out) = 1 /\ out[1].type = "error")

\* model generations the request has started so far
GenerationsStarted == Len(gens) + IF pc = "gen_stream" THEN 1 ELSE 0

\* C17: the tool catalog is fetched before every model generation of a
\* request (so there are at least as many fetches as generations started),
\* and no fetch is answered from a cached catalog: the cache stays unused.
C17_CatalogFetchedPerRound ==
    /\ tools_cache = None
    /\ \A i \in 1..Len(fetches) : ~fetches[i].cached
    /\ GenerationsStarted <= Len(fetches)

\* C18: a tool call whose accumulated arguments do not parse as JSON is not
\* invoked; once the batch is over the conversation holds a tool message
\* for it.
C18_UnparsableNotInvoked ==
    /\ \A k \in 1..Len(invoked) :
          ParseArguments(batch_tool_calls[k].function.arguments).ok
    /\ gen = "followup" =>
          \A k \in 1..Len(batch_tool_calls) :
             ~ParseArguments(batch_tool_calls[k].function.arguments).ok =>
                \E m \in 1..Len(messages) :
                   /\ messages[m].role = "tool"
                   /\ messages[m].tool_call_id = batch_tool_calls[k].id

\* C19: within a batch the calls are invoked one after another in the order
\* of the captured list: the k-th tool_start names the k-th call, between
\* two tool_start events lies the tool_result or error of the earlier call,
\* and at most one invocation is without its tool_result or error.
C19_SequentialInOrder ==
    LET starts == OfType("tool_start")
        ends == OfType("tool_result") \cup ToolErrors
    IN  /\ Cardinality(starts) <= Len(batch_tool_calls)
        /\ \A i \in starts :
              LET k == Cardinality({j \in starts : j <= i})
              IN  out[i].tool_name = batch_tool_calls[k].function.name
        /\ \A i, j \in starts :
              i < j => \E e \in ends : i < e /\ e < j
        /\ Cardinality(starts) - Cardinality(ends) \in {0, 1}

\* C19 witness: a batch of two calls; the first has failed and the second
\* is with the tool server.
C19_Witness ==
    /\ pc = "tool_http"
    /\ Len(batch_tool_calls) = 2
    /\ call_k = 2
    /\ batch_tool_calls[1].function.name # batch_tool_calls[2].function.name
    /\ Cardinality(OfType("tool_start")) = 2
    /\ Cardinality(ToolErrors) = 1

\* C23: when a generation ends with the finish reason tool_calls and the
\* tool-call buffer is empty, no tool is invoked, no further generation is
\* started, and the stream ends with done and holds no error event.
C23_EmptyBatchEndsDone ==
    (rounds > 0 /\ batch_tool_calls = <<>>) =>
        /\ invoked = <<>>
        /\ gen # "followup"
        /\ Len(gens) = 1
        /\ pc = "closed" =>
              (out # <<>> /\ Last(out).type = "done" /\ OfType("error") = {})

\* C24: the assistant message appended before the tool results of a round
\* carries the text the model streamed in that round, in full, and the
\* captured tool-call set.
C24_AssistantCarriesText ==
    (gen = "followup" /\ pc = "gen_start") =>
        \E a \in 1..Len(messages) :
           /\ messages[a].role = "assistant"
           /\ messages[a].tool_calls = batch_tool_calls
           /\ messages[a].content = texts

\* the error texts that hold the words "context length", in any letter case
ContextLengthTexts ==
    {"This model's maximum context length is 8192 tokens.",
     "Context Length exceeded"}

\* C27: when the model call fails with an error whose text holds the
\* context-length signature, the stream gets exactly one error event of
\* the kind context_length_exceeded, as its last event; every other failure
\* of the model call gives an error event without that kind.
C27_ContextLengthIsDistinct ==
    (pc = "closed" /\ gens # <<>> /\ Last(gens).finish \in ErrorTexts) =>
        LET kinded == {i \in OfType("error") :
                          out[i].error_type = "context_length_exceeded"}
        IN  /\ Last(out).type = "error"
            /\ IF Last(gens).finish \in ContextLengthTexts
               THEN kinded = {Len(out)}
               ELSE kinded = {} /\ Last(out).error = Last(gens).finish

\* C27 witness: the model call was rejected with "Context Length exceeded"
\* and the stream ends with the context_length_exceeded error.
C27_Witness ==
    /\ pc = "closed"
    /\ gens # <<>>
    /\ Last(gens).finish = "Context Length exceeded"
    /\ Last(out).type = "error"
    /\ Last(out).error_type = "context_length_exceeded"

\* C28: a request whose model is outside the function-calling list, or for
\* which the tool catalog is empty, is answered by a single generation
\* without tools: no tool is invoked and the stream holds no tool_start,
\* tool_result or tool_calls event.
C28_NoToolsWithoutCatalog ==
    (/\ fetches # <<>>
     /\ ~model_supports_functions(request_model) \/ mcp_tools = <<>>) =>
        /\ gen = "plain"
        /\ gen_tools = <<>>
        /\ GenerationsStarted <= 1
        /\ invoked = <<>>
        /\ OfType("tool_start") = {}
        /\ OfType("tool_result") = {}
        /\ OfType("tool_calls") = {}

\* C29: every record of the tool-call set flushed at the finish marker has
\* received at least one fragment and has a non-empty name, and no record
\* without a name is handed to tool execution.
C29_FlushedCallsComplete ==
    /\ \A k \in 1..Len(batch_tool_calls) :
          /\ batch_tool_calls[k].function.name # ""
          /\ \E f \in 1..Len(frags) : frags[f].index = k - 1
    /\ \A k \in 1..Len(invoked) : invoked[k].name # ""

\* C36: tool calls accumulated from a model stream are handed to
\* execution only when the stream finishes with reason tool_calls.  If the
\* stream finishes with reason stop, or ends without a finish marker, it
\* emits done, the request ends there, and the buffered calls are dropped:
\* every invocation is a call of the set flushed by a tool_calls finish.
C36_ExecutedOnlyOnToolCalls ==
    /\ \A i \in 1..Len(gens) :
          gens[i].finish \in {"stop", "end"} =>
             /\ i = Len(gens)
             /\ pc = "closed"
             /\ Last(out) = DoneChunk
             /\ gens[i].which = "first" => invoked = <<>>
    /\ invoked # <<>> =>
          /\ gens[1] = [which |-> "first", finish |-> "tool_calls"]
          /\ Len(invoked) <= Len(batch_tool_calls)
          /\ \A k \in 1..Len(invoked) :
                invoked[k].name = batch_tool_calls[k].function.name

\* C36 witness: the first generation buffered a call and then ended
\* without a finish marker; the stream ended with done, nothing was invoked.
C36_Witness ==
    /\ pc = "closed"
    /\ gens = <<[which |-> "first", finish |-> "end"]>>
    /\ frags # <<>>
    /\ tool_calls # <<>>
    /\ Last(out) = DoneChunk
    /\ invoked = <<>>
    /\ rounds = 0

\* C37: one chat request runs at most two model generations and at most
\* one batch of tool executions; the follow-up generation is started with
\* an empty tool set; and once the follow-up generation has begun no
\* tool_start event is emitted.
C37_TwoGenerationsOneBatch ==
    /\ [](/\ GenerationsStarted <= 2
          /\ rounds <= 1
          /\ gen = "followup" => gen_tools = <<>>)
    /\ [][gen = "followup" =>
            {i \in 1..Len(out') : out'[i].type = "tool_start"}
               = OfType("tool_start")]_vars

\* C37 witness: a batch of one call, which failed, and a follow-up
\* generation that ran without tools and finished with tool calls of its
\* own; the request ended there, after two generations and one tool_start.
C37_Witness ==
    /\ pc = "closed"
    /\ Len(gens) = 2
    /\ gens[2] = [which |-> "followup", finish |-> "tool_calls"]
    /\ gen_tools = <<>>
    /\ rounds = 1
    /\ Len(invoked) = 1
    /\ Cardinality(OfType("tool_start")) = 1
    /\ Last(out).type = "tool_calls"

\* the ids of the JSON-RPC requests the request has sent to the tool
\* server, in the order of sending: tools/list first, then the tools/call
\* of every invocation
RequestIds ==
    LET listed == SelectSeq(fetches, LAMBDA f : ~f.cached)
    IN  [i \in 1..Len(listed) |-> listed[i].id]
        \o [i \in 1..Len(invoked) |-> invoked[i].id]

\* C34: every JSON-RPC request sent to the tool server (tools/list and
\* tools/call) carries an id that is unique among the requests sent and
\* greater than the ids of the earlier requests.
C34_StreamingIdsIncrease ==
    \A i, j \in 1..Len(RequestIds) : i < j => RequestIds[i] < RequestIds[j]

(***************************************************************************)
(* SpecDisc: the request of Spec with a client that may close the          *)
(* connection.  generate_streaming_response holds no check of the          *)
(* connection (the handler does not take the Request): the generator runs  *)
(* on until the server, which iterates it for StreamingResponse, cancels   *)
(* it at the await it is suspended at or fails the send of an event it     *)
(* yields.                                                                 *)
(***************************************************************************)
request_vars ==
    <<pc, client_ok, api_key, request_model, tools_cache, mcp_tools, messages,
      gen, gen_tools, chunk_count, tool_calls, batch_tool_calls, call_k,
      function_args, tool_results, out, gens, rounds, invoked, frags, texts,
      fetches>>

\* the client closes the connection while the response is streamed
Disconnect ==
    /\ connected
    /\ pc # "closed"
    /\ connected' = FALSE
    /\ UNCHANGED <<request_vars, chats, tool_resp, relay, trunc_vars, rpc_vars>>

\* the server ends the generator of a response whose client is gone
Abandon ==
    /\ ~connected
    /\ pc # "closed"
    /\ pc' = "closed"
    /\ UNCHANGED <<client_ok, api_key, request_model, tools_cache, mcp_tools,
                   messages, gen, gen_tools, chunk_count, tool_calls,
                   batch_tool_calls, call_k, function_args, tool_results, out,
                   gens, rounds, invoked, frags, texts, fetches>>
    /\ ChatUnchanged

\* a step of the generator: without a client it gets as far as its next
\* yield, so only the steps that yield nothing are taken
Step == Next /\ (connected \/ out' = out)

NextDisc ==
    \/ Disconnect
    \/ Abandon
    \/ Step

SpecDisc == Init /\ [][NextDisc]_vars

\* C20: once the client has disconnected, the request issues no further
\* tool invocation and reads no further chunk of the model stream.
C20_StopsAfterDisconnect ==
    [][~connected => (invoked' = invoked /\ chunk_count' # chunk_count + 1)]_vars

(***************************************************************************)
(* SpecPair: /chat requests in flight together.  Every request runs its    *)
(* own call of generate_streaming_response and of stream_chat_with_tools;  *)
(* messages, tool_calls, tool_results and the accumulator's buffer are     *)
(* locals of these calls.  A request has its position (pc, k, n), the      *)
(* message lists it has sent to the model (sent), and a frame that holds   *)
(* the locals.  The model answers request r with fragments of the call     *)
(* CallIds[r]; the catalog is not empty and the model is in the list.      *)
(***************************************************************************)
Chats == 1..MaxChats

\* variant: the locals are kept in one place for all requests
SharedFrame(r) == 1

\* the frame of the calls made for request r
FrameOf(r) == r

\* request.messages of request r
UserMessage(r) ==
    Message("user", <<"hi " \o DigitChars[r + 1]>>, <<>>, None)

Frame(msgs, buffer, batch, results) ==
    [messages |-> msgs, tool_calls |-> buffer, batch |-> batch,
     tool_results |-> results]

NoFrame == Frame(<<>>, <<>>, <<>>, <<>>)

ChatState(cpc, k, n, sent, frame) ==
    [pc |-> cpc, k |-> k, n |-> n, sent |-> sent, frame |-> frame]

\* the locals request r works on
Locals(r) == chats[FrameOf(r)].frame

\* request r moves on and leaves `frame` in its locals
Put(r, cpc, k, n, sent, frame) ==
    [c \in Chats |->
       ChatState(IF c = r THEN cpc ELSE chats[c].pc,
                 IF c = r THEN k ELSE chats[c].k,
                 IF c = r THEN n ELSE chats[c].n,
                 IF c = r THEN sent ELSE chats[c].sent,
                 IF c = FrameOf(r) THEN frame ELSE chats[c].frame)]

PairUnchanged ==
    UNCHANGED <<request_vars, connected, tool_resp, relay, trunc_vars,
                rpc_vars>>

InitPair ==
    /\ RequestIdle
    /\ TruncIdle
    /\ RpcIdle
    /\ chats = [c \in Chats |-> ChatState("start", 0, 0, <<>>, NoFrame)]
    /\ ToolIdle
    /\ RelayIdle

\* messages = [system_message] + request.messages; the first generation
ChatBegin(r) ==
    /\ chats[r].pc = "start"
    /\ LET msgs == <<system_message, UserMessage(r)>> IN
       chats' = Put(r, "gen", 0, 0, <<msgs>>,
                    Frame(msgs, <<>>, <<>>, <<>>))
    /\ PairUnchanged

\* a chunk of r's model stream with one tool-call fragment
ChatDelta(r) ==
    /\ chats[r].pc = "gen"
    /\ chats[r].n < MaxPairFragments
    /\ \E d \in {Delta(i, CallIds[r], "list_items", "{}") : i \in 0..1} :
          LET f == Locals(r) IN
          chats' = Put(r, "gen", 0, chats[r].n + 1, chats[r].sent,
                       Frame(f.messages, ApplyDelta(f.tool_calls, d),
                             f.batch, f.tool_results))
    /\ PairUnchanged

\* the tool_calls chunk: tool_calls = chunk.metadata["tool_calls"],
\* tool_results = []
ChatFlush(r) ==
    /\ chats[r].pc = "gen"
    /\ LET f == Locals(r) IN
       chats' = Put(r, "batch", 1, chats[r].n, chats[r].sent,
                    Frame(f.messages, f.tool_calls, f.tool_calls, <<>>))
    /\ PairUnchanged

\* one pass of the loop over the calls: the invocation fails, or it
\* succeeds and the formatting of its result raises
ChatTool(r) ==
    /\ chats[r].pc = "batch"
    /\ chats[r].k <= Len(Locals(r).batch)
    /\ \E ok \in BOOLEAN :
          LET f == Locals(r)
              fmt == FormatCall(PyNone)
          IN  IF ok /\ ~fmt.ok
              THEN chats' = Put(r, "closed", chats[r].k, chats[r].n,
                                chats[r].sent, f)
              ELSE chats' =
                     Put(r, "batch", chats[r].k + 1, chats[r].n, chats[r].sent,
                         Frame(f.messages, f.tool_calls, f.batch,
                               IF ok
                               THEN Append(f.tool_results,
                                           Message("tool", fmt.content, <<>>,
                                                   CallAt(f.batch,
                                                          chats[r].k).id))
                               ELSE f.tool_results))
    /\ PairUnchanged

\* messages_with_results and the follow-up generation
ChatFollowUp(r) ==
    /\ chats[r].pc = "batch"
    /\ chats[r].k > Len(Locals(r).batch)
    /\ LET f == Locals(r)
           messages_with_results ==
               f.messages \o <<Message("assistant", <<>>, f.batch, None)>>
                  \o f.tool_results
       IN  chats' = Put(r, "closed", chats[r].k, chats[r].n,
                        Append(chats[r].sent, messages_with_results), f)
    /\ PairUnchanged

NextPair ==
    \E r \in Chats :
       \/ ChatBegin(r)
       \/ ChatDelta(r)
       \/ ChatFlush(r)
       \/ ChatTool(r)
       \/ ChatFollowUp(r)

SpecPair == InitPair /\ [][NextPair]_vars

\* message m holds nothing of a request other than r
OwnedBy(m, r) ==
    CASE m.role = "system" -> m = system_message
      [] m.role = "user" -> m = UserMessage(r)
      [] m.role = "assistant" ->
           \A i \in 1..Len(m.tool_calls) :
              m.tool_calls[i].id \in {"", CallIds[r]}
      [] OTHER -> m.tool_call_id \in {"", CallIds[r]}

\* C21: for requests in flight together, the conversation sent to the
\* model for request r holds only r's messages, r's tool calls and r's
\* tool results, and the calls r is executing are its own, under every
\* interleaving.
C21_RequestsIsolated ==
    \A r \in Chats :
       /\ \A s \in 1..Len(chats[r].sent) :
             /\ chats[r].sent[s][2] = UserMessage(r)
             /\ \A m \in 1..Len(chats[r].sent[s]) :
                   OwnedBy(chats[r].sent[s][m], r)
       /\ chats[r].pc = "batch" =>
             \A i \in 1..Len(chats[r].frame.batch) :
                chats[r].frame.batch[i].id \in {"", CallIds[r]}

\* C21 witness: request 1 has sent its follow-up conversation with its two
\* calls while request 2 is in the middle of its batch.
C21_Witness ==
    /\ chats[1].pc = "closed"
    /\ Len(chats[1].sent) = 2
    /\ Len(chats[1].sent[2]) = 3
    /\ Len(chats[1].sent[2][3].tool_calls) = 2
    /\ chats[2].pc = "batch"
    /\ chats[2].k = 2
    /\ Len(chats[2].frame.batch) = 2

(***************************************************************************)
(* SpecLoop: the same request against a model that answers a generation    *)
(* with text, with one complete tool call or with a stop, and a tool       *)
(* server that answers with a result or with a failure.                    *)
(***************************************************************************)
LoopChunks ==
    {Chunk(TRUE, "Hello", <<>>, None),
     Chunk(TRUE, None, <<Delta(0, CallIds[0], "list_items", "{}")>>,
           "tool_calls"),
     Chunk(TRUE, None, <<>>, "stop")}

LoopCatalogResponses ==
    {ServerResponse("http", 500, FALSE, <<>>),
     ServerResponse("http", 200, FALSE,
                    <<ToolsLine(<<Tool("list_items", TRUE)>>)>>)}

LoopToolResponses ==
    {ServerResponse("timeout", 0, FALSE, <<>>),
     ServerResponse("http", 500, FALSE, <<>>),
     ServerResponse("http", 200, FALSE, <<ResultLine(TextEnvelope)>>)}

LoopListTools == ListToolsOf(LoopCatalogResponses)
LoopGenStart == GenStartOf(CreateOutcomes)
LoopGenChunk == GenChunkOf(LoopChunks)
LoopToolHttp == ToolHttpOf(LoopToolResponses)

NextLoop ==
    \/ CheckClient
    \/ LoopListTools
    \/ LoopGenStart
    \/ LoopGenChunk
    \/ GenEnd
    \/ GenRaise
    \/ ToolStart
    \/ ToolProgress
    \/ LoopToolHttp
    \/ BatchDone

SpecLoop == Init /\ [][NextLoop]_vars

\* every generation of the request so far ended with tool calls
AlwaysToolCalls ==
    Len(gens) > 0 /\ \A g \in 1..Len(gens) : gens[g].finish = "tool_calls"

\* C6: the number of rounds (a generation followed by a tool batch) of one
\* request never exceeds 5.
C6_RoundLimit == rounds <= 5

\* C6 witness: the first generation and the follow-up generation both
\* ended with tool calls; the request closed after one round.
C6_Witness ==
    /\ pc = "closed"
    /\ Len(gens) = 2
    /\ AlwaysToolCalls
    /\ rounds = 1

\* C7: against a model that returns tool calls on every generation the
\* request ends with exactly one terminal error event, which reports that
\* the loop limit was reached.
C7_LoopLimitError ==
    (pc = "closed" /\ Len(gens) >= 2 /\ AlwaysToolCalls)
    => /\ Last(out).type = "error"
       /\ Last(out).error = "loop limit reached"
       /\ Cardinality(Terminals) = 1

(***************************************************************************)
(* SpecAcc: the accumulator alone.  Fragments arrive one per chunk; the    *)
(* chunk with finish reason tool_calls flushes the buffer.  frags records  *)
(* the fragments in receipt order.                                         *)
(***************************************************************************)
\* per index: id with the head of the name, the tail of the name with the
\* head of the arguments, the tail of the arguments, empty pieces, and
\* another id alone
AccDeltas ==
    UNION {{Delta(i, CallIds[i], "list_", None),
            Delta(i, None, "items", "{\"limit\":"),
            Delta(i, None, None, "10}"),
            Delta(i, "", "", ""),
            Delta(i, CallIds[i + 5], None, None)} : i \in 0..MaxAccIndex}

InitAcc ==
    /\ TruncIdle
    /\ RpcIdle
    /\ pc = "gen_stream"
    /\ client_ok = TRUE
    /\ api_key = TRUE
    /\ request_model = "openai/gpt-4o-mini"
    /\ tools_cache = None
    /\ mcp_tools = <<>>
    /\ messages = <<>>
    /\ gen = "first"
    /\ gen_tools = <<>>
    /\ chunk_count = 0
    /\ tool_calls = <<>>
    /\ batch_tool_calls = <<>>
    /\ call_k = 0
    /\ function_args = EmptyDict
    /\ tool_results = <<>>
    /\ out = <<>>
    /\ gens = <<>>
    /\ rounds = 0
    /\ invoked = <<>>
    /\ frags = <<>>
    /\ texts = <<>>
    /\ fetches = <<>>
    /\ connected = TRUE
    /\ chats = <<>>
    /\ ToolIdle
    /\ RelayIdle

\* a chunk whose delta carries one tool-call fragment
AccFragment ==
    /\ pc = "gen_stream"
    /\ Len(frags) < MaxFragments
    /\ \E d \in AccDeltas :
          LET r == ProcessChunk(tool_calls, Chunk(TRUE, None, <<d>>, None))
          IN  /\ tool_calls' = r.tool_calls
              /\ out' = out \o r.events
              /\ frags' = Append(frags, d)
    /\ chunk_count' = chunk_count + 1
    /\ UNCHANGED <<pc, client_ok, api_key, request_model, tools_cache, fetches,
                   mcp_tools, messages, gen, gen_tools, batch_tool_calls,
                   call_k, function_args, tool_results, gens, rounds, invoked,
                   texts>>
    /\ ChatUnchanged

\* the chunk with finish_reason "tool_calls": the buffer is yielded
AccFinish ==
    /\ pc = "gen_stream"
    /\ LET r == ProcessChunk(tool_calls, Chunk(TRUE, None, <<>>, "tool_calls"))
       IN  /\ tool_calls' = r.tool_calls
           /\ out' = out \o r.events
    /\ chunk_count' = chunk_count + 1
    /\ pc' = "flushed"
    /\ UNCHANGED <<client_ok, api_key, request_model, tools_cache, fetches,
                   mcp_tools,
                   messages, gen, gen_tools, batch_tool_calls, call_k,
                   function_args, tool_results, gens, rounds, invoked, frags, texts>>
    /\ ChatUnchanged

NextAcc == AccFragment \/ AccFinish

SpecAcc == InitAcc /\ [][NextAcc]_vars

\* the concatenation, in receipt order, of the name pieces (or of the
\* arguments pieces) of the fragments of fs with index i
RECURSIVE PiecesOf(_, _, _)
PiecesOf(fs, i, field) ==
    IF fs = <<>> THEN ""
    ELSE LET d == Head(fs)
             piece == IF field = "name" THEN d.name ELSE d.arguments
         IN  (IF d.index = i /\ piece # None THEN piece ELSE "")
             \o PiecesOf(Tail(fs), i, field)

\* C4: the buffer flushed at the finish marker has max(index)+1 records
\* over the fragments received, and the name and the arguments of record i
\* are the concatenation, in receipt order, of the name pieces and of the
\* arguments pieces of the fragments with index i.
C4_AccumulatorBuffer ==
    pc = "flushed"
    => LET buf == Last(out).tool_calls
           seen == {frags[k].index : k \in 1..Len(frags)}
       IN  /\ Last(out).type = "tool_calls"
           /\ Len(buf) = IF seen = {} THEN 0
                         ELSE 1 + CHOOSE m \in seen : \A x \in seen : x <= m
           /\ \A i \in 0..(Len(buf) - 1) :
                 /\ buf[i + 1].function.name = PiecesOf(frags, i, "name")
                 /\ buf[i + 1].function.arguments
                      = PiecesOf(frags, i, "arguments")

\* C4 witness: fragments of index 1, 0 and 1 again were received in this
\* order; record 1 holds the two arguments pieces of index 1 joined.
C4_Witness ==
    /\ pc = "flushed"
    /\ Len(frags) = 3
    /\ frags[1].index = 1 /\ frags[2].index = 0 /\ frags[3].index = 1
    /\ frags[1].arguments = "{\"limit\":"
    /\ frags[3].arguments = "10}"
    /\ Len(Last(out).tool_calls) = 2
    /\ Last(out).tool_calls[2].function.arguments = "{\"limit\":10}"

\* the sequence q with its elements j and j + 1 exchanged
Swap(q, j) ==
    [i \in 1..Len(q) |->
       IF i = j THEN q[j + 1] ELSE IF i = j + 1 THEN q[j] ELSE q[i]]

\* C30: the flushed buffer does not depend on the relative order of the
\* fragments of different calls: exchanging two adjacent fragments that
\* carry different indices leaves the buffer (length, ids, names,
\* arguments) as it is.
C30_OrderIndependent ==
    pc = "flushed" =>
        \A j \in 1..(Len(frags) - 1) :
           frags[j].index # frags[j + 1].index =>
              ApplyDeltas(<<>>, Swap(frags, j)) = Last(out).tool_calls

\* C30 witness: the head of call 0, the head of call 1 and the tail of the
\* name of call 0 were received in this order; record 0 holds the whole
\* name.
C30_Witness ==
    /\ pc = "flushed"
    /\ Len(frags) = 3
    /\ frags[1].index = 0 /\ frags[2].index = 1 /\ frags[3].index = 0
    /\ frags[1].name = "list_"
    /\ frags[2].id = CallIds[1]
    /\ frags[3].name = "items"
    /\ Len(Last(out).tool_calls) = 2
    /\ Last(out).tool_calls[1].function.name = "list_items"

\* the id of the last fragment of fs with index i that carried a non-empty
\* id, the empty string when there is none
RECURSIVE LastIdOf(_, _)
LastIdOf(fs, i) ==
    IF fs = <<>> THEN ""
    ELSE LET d == fs[Len(fs)]
         IN  IF d.index = i /\ d.id # None /\ d.id # "" THEN d.id
             ELSE LastIdOf(SubSeq(fs, 1, Len(fs) - 1), i)

\* C31: after any sequence of fragments the id of record i is the id of
\* the last fragment with index i that carried a non-empty id, and the
\* empty string when no fragment of index i carried one: an id piece
\* replaces the stored id and is never appended to it.
C31_IdReplaced ==
    \A i \in 0..(Len(tool_calls) - 1) :
       tool_calls[i + 1].id = LastIdOf(frags, i)

\* C31 witness: call 0 received two different ids and a fragment without
\* one; its record holds the second id alone, and record 1, which no
\* fragment named, holds the empty string.
C31_Witness ==
    /\ Len(frags) = 3
    /\ frags[1] = Delta(0, CallIds[0], "list_", None)
    /\ frags[2] = Delta(0, CallIds[5], None, None)
    /\ frags[3].index = 2 /\ frags[3].id = None
    /\ Len(tool_calls) = 3
    /\ tool_calls[1].id = CallIds[5]
    /\ tool_calls[2].id = ""
    /\ tool_calls[3].id = ""

(***************************************************************************)
(* SpecOld: POST /chat of main_old.py (chat_completion_stream), the        *)
(* handler that answers with one ChatResponse.  out holds the HTTP answer  *)
(* of the request once it is given.                                        *)
(***************************************************************************)
MaxOldCalls == 2    \* tool calls of one model answer in SpecOld

\* the answer of the endpoint: a ChatResponse, or the status-500 answer of
\* an HTTPException or of an exception that leaves the handler
ChatResponse(response) ==
    [type |-> "response", status |-> 200, text |-> response]
HttpError(detail) == [type |-> "http_error", status |-> 500, text |-> detail]

\* function_args = json.loads(tool_call["function"]["arguments"])
LoadArguments(str) ==
    IF str \in DOMAIN ArgumentDocs
    THEN [ok |-> TRUE, args |-> ArgumentDocs[str]]
    ELSE [ok |-> FALSE, args |-> EmptyDict]

\* message["tool_calls"] of the first answer of the model
OldArguments == {"", " ", "{}", "{\"limit\":10}", "{"}
OldCalls ==
    {[id |-> CallIds[0], type |-> "function",
      function |-> [name |-> "list_items", arguments |-> a]] :
        a \in OldArguments}
OldToolCalls == UNION {[1..n -> OldCalls] : n \in 0..MaxOldCalls}

OldUnchanged ==
    /\ UNCHANGED <<client_ok, api_key, request_model, tools_cache, chunk_count,
                   tool_calls, frags, texts, fetches>>
    /\ ChatUnchanged

InitOld ==
    /\ pc = "old_start"
    /\ client_ok = TRUE
    /\ api_key \in BOOLEAN
    /\ request_model \in {"openai/gpt-4o-mini", "qwen/qwen-2.5-7b-instruct"}
    /\ tools_cache = None
    /\ mcp_tools = <<>>
    /\ messages = <<>>
    /\ gen = None
    /\ gen_tools = <<>>
    /\ chunk_count = 0
    /\ tool_calls = <<>>
    /\ batch_tool_calls = <<>>
    /\ call_k = 0
    /\ function_args = EmptyDict
    /\ tool_results = <<>>
    /\ out = <<>>
    /\ gens = <<>>
    /\ rounds = 0
    /\ invoked = <<>>
    /\ frags = <<>>
    /\ texts = <<>>
    /\ fetches = <<>>
    /\ connected = TRUE
    /\ chats = <<>>
    /\ ToolIdle
    /\ RelayIdle
    /\ TruncIdle
    /\ RpcIdle

\* get_all_tools(), the system message, the choice of the branch
OldStart ==
    /\ pc = "old_start"
    /\ \E tools \in Catalogs :
          LET with_tools == model_supports_functions(request_model)
                            /\ tools # <<>>
          IN  /\ mcp_tools' = tools
              /\ gen' = IF with_tools THEN "first" ELSE "plain"
              /\ gen_tools' = IF with_tools THEN tools ELSE <<>>
    /\ messages' = <<system_message>> \o RequestMessages
    /\ pc' = "old_gen"
    /\ UNCHANGED <<batch_tool_calls, call_k, function_args, tool_results, out,
                   gens, rounds, invoked>>
    /\ OldUnchanged

\* chat_completion_with_tools(), or chat_completion() on the branch
\* without function calling
OldGen ==
    /\ pc = "old_gen"
    /\ IF ~api_key
       THEN /\ out' = <<HttpError("OpenRouter API key not configured")>>
            /\ gens' = gens
            /\ pc' = "closed"
            /\ UNCHANGED <<batch_tool_calls, call_k, rounds>>
       ELSE \/ /\ out' = <<HttpError("LLM API call failed")>>
               /\ gens' = Append(gens, [which |-> gen, finish |-> "error"])
               /\ pc' = "closed"
               /\ UNCHANGED <<batch_tool_calls, call_k, rounds>>
            \/ \E tcs \in OldToolCalls :
                  /\ gens' = Append(gens,
                                [which |-> gen,
                                 finish |-> IF tcs # <<>> /\ gen = "first"
                                            THEN "tool_calls" ELSE "stop"])
                  /\ IF tcs # <<>> /\ gen = "first"
                     THEN \* if response.tool_calls:
                          /\ batch_tool_calls' = tcs
                          /\ call_k' = 1
                          /\ rounds' = rounds + 1
                          /\ out' = out
                          /\ pc' = "old_batch"
                     ELSE /\ tcs = <<>>
                          /\ out' = <<ChatResponse("Hello")>>
                          /\ pc' = "closed"
                          /\ UNCHANGED <<batch_tool_calls, call_k, rounds>>
    /\ UNCHANGED <<mcp_tools, messages, gen, gen_tools, function_args,
                   tool_results, invoked>>
    /\ OldUnchanged

\* one pass of `for tool_call in response.tool_calls`
OldCall ==
    /\ pc = "old_batch"
    /\ call_k <= Len(batch_tool_calls)
    /\ LET tool_call == batch_tool_calls[call_k]
           loaded == LoadArguments(tool_call.function.arguments)
       IN  IF ~loaded.ok
           THEN \* JSONDecodeError leaves the handler
                /\ out' = <<HttpError("Internal Server Error")>>
                /\ pc' = "closed"
                /\ UNCHANGED <<function_args, invoked, tool_results, call_k>>
           ELSE /\ function_args' = loaded.args
                /\ invoked' = Append(invoked,
                                 [name |-> tool_call.function.name,
                                  arguments |-> loaded.args])
                /\ \E result \in {"success", "error"} :
                      tool_results' =
                         Append(tool_results,
                                Message("tool", <<result>>, <<>>,
                                        tool_call.id))
                /\ call_k' = call_k + 1
                /\ out' = out
                /\ pc' = "old_batch"
    /\ UNCHANGED <<mcp_tools, messages, gen, gen_tools, batch_tool_calls,
                   gens, rounds>>
    /\ OldUnchanged

\* after the loop: messages_with_results and the final completion, which
\* is posted without tools
OldFinal ==
    /\ pc = "old_batch"
    /\ call_k > Len(batch_tool_calls)
    /\ messages' = messages
                   \o <<Message("assistant", None, batch_tool_calls, None)>>
                   \o tool_results
    /\ gen' = "followup"
    /\ gen_tools' = <<>>
    /\ \E ok \in BOOLEAN :
          /\ out' = <<ChatResponse(IF ok THEN "Hello"
                                   ELSE "final response failed")>>
          /\ gens' = Append(gens, [which |-> "followup",
                                   finish |-> IF ok THEN "stop" ELSE "error"])
    /\ pc' = "closed"
    /\ UNCHANGED <<mcp_tools, batch_tool_calls, call_k, function_args,
                   tool_results, rounds, invoked>>
    /\ OldUnchanged

NextOld == OldStart \/ OldGen \/ OldCall \/ OldFinal

SpecOld == InitOld /\ [][NextOld]_vars

\* C32: a tool call whose arguments string is empty or only whitespace is
\* invoked with the empty object {} as its arguments and is not treated as
\* an argument error: once the loop over the calls has dealt with call j,
\* a j-th invocation was issued and its arguments are {}.
C32_BlankArgumentsInvoked ==
    \A j \in 1..Len(batch_tool_calls) :
       (/\ IsBlank(batch_tool_calls[j].function.arguments)
        /\ (call_k > j \/ (call_k = j /\ pc = "closed")))
       => /\ Len(invoked) >= j
          /\ invoked[j].arguments = EmptyDict

(***************************************************************************)
(* SpecTool: one call of stream_tool_execution(tool_name, arguments) on    *)
(* the HTTP fallback path.  tool_resp is what the post to the tool server  *)
(* gets; out holds the events the generator yields.                        *)
(***************************************************************************)
MaxToolLines == 2   \* data lines of the tool server's answer in SpecTool

\* data lines of an answer: text that does not parse, a number, a
\* notification, an error object, results, a result without "jsonrpc"
ToolLines ==
    {BadLine, ScalarLine, NotifLine, ErrorLine, ResultLine(TextEnvelope),
     ResultLine(RowsEnvelope),
     DataLine("obj", FALSE, TRUE, FALSE, <<>>, TextEnvelope)}

\* an SSE body of data lines, a body of one document, an error status, an
\* exception of the post
ToolBodies ==
    {ServerResponse("http", 200, TRUE, b) :
        b \in SeqsUpTo(ToolLines, MaxToolLines) \ {<<>>}}
    \cup {ServerResponse("http", 200, FALSE, <<l>>) : l \in ToolLines}
    \cup {ServerResponse("http", 500, FALSE, <<>>),
          ServerResponse("timeout", 0, FALSE, <<>>),
          ServerResponse("network", 0, FALSE, <<>>)}

ExecUnchanged ==
    UNCHANGED <<client_ok, api_key, request_model, tools_cache, mcp_tools,
                messages, gen, gen_tools, chunk_count, tool_calls,
                batch_tool_calls, call_k, function_args, tool_results, gens,
                rounds, invoked, frags, texts, fetches, connected, chats,
                tool_resp, relay, trunc_vars, rpc_vars>>

\* the call: tool_name and arguments are those of batch_tool_calls[1]
InitTool ==
    /\ pc = "exec_start"
    /\ client_ok = TRUE
    /\ api_key = TRUE
    /\ request_model = "openai/gpt-4o-mini"
    /\ tools_cache = None
    /\ mcp_tools = <<>>
    /\ messages = <<>>
    /\ gen = None
    /\ gen_tools = <<>>
    /\ chunk_count = 0
    /\ tool_calls = <<>>
    /\ \E name \in {"list_items", "get_item"} :
          batch_tool_calls = <<[id |-> CallIds[0], type |-> "function",
                                function |-> [name |-> name,
                                              arguments |-> "{}"]]>>
    /\ call_k = 1
    /\ function_args \in {EmptyDict, PyDict([limit |-> PyInt(10)])}
    /\ tool_results = <<>>
    /\ out = <<>>
    /\ gens = <<>>
    /\ rounds = 0
    /\ invoked = <<>>
    /\ frags = <<>>
    /\ texts = <<>>
    /\ fetches = <<>>
    /\ connected = TRUE
    /\ chats = <<>>
    /\ tool_resp \in ToolBodies
    /\ RelayIdle
    /\ TruncIdle
    /\ RpcIdle

\* yield StreamChunk(type="tool_start", ...)
ExecStart ==
    /\ pc = "exec_start"
    /\ out' = Append(out, ToolStartChunk(batch_tool_calls[1].function.name,
                                         function_args))
    /\ pc' = "exec_progress"
    /\ ExecUnchanged

\* _get_session() returns None: the progress event of the HTTP fallback
ExecProgress ==
    /\ pc = "exec_progress"
    /\ out' = Append(out, ToolProgressChunk(batch_tool_calls[1].function.name))
    /\ pc' = "exec_post"
    /\ ExecUnchanged

\* the post completes or raises: tool_result, or the error event of the
\* except clause
ExecPost ==
    /\ pc = "exec_post"
    /\ out' = Append(out, ToolOutcome(batch_tool_calls[1].function.name,
                                      tool_resp))
    /\ pc' = "exec_done"
    /\ ExecUnchanged

NextTool == ExecStart \/ ExecProgress \/ ExecPost

SpecTool == InitTool /\ [][NextTool]_vars

\* the positions of the data lines of the answer that bear a result the
\* call accepts: an object with "result" and, in an SSE body, "jsonrpc"
ResultBearing ==
    {i \in 1..Len(tool_resp.lines) :
        /\ tool_resp.lines[i].json = "obj"
        /\ tool_resp.lines[i].has_result
        /\ tool_resp.sse => tool_resp.lines[i].jsonrpc}

\* C35: for every answer of the tool server and every failure, one call of
\* stream_tool_execution emits tool_start as its first event and exactly
\* one event of type tool_result or error, as its last event; of several
\* result-bearing objects in one body only the first makes the tool_result.
C35_OneTerminalEvent ==
    LET ends == {i \in 1..Len(out) : out[i].type \in {"tool_result", "error"}}
    IN  /\ out # <<>> => out[1].type = "tool_start"
        /\ pc # "exec_done" => ends = {}
        /\ pc = "exec_done" =>
              /\ ends = {Len(out)}
              /\ Last(out).type = "tool_result" =>
                    /\ ResultBearing # {}
                    /\ LET first == CHOOSE i \in ResultBearing :
                                       \A j \in ResultBearing : i <= j
                       IN  Last(out).tool_result.v.mcp_result
                             = tool_resp.lines[first].result

\* C35 witness: an SSE body with two different results; the call emitted
\* tool_start, progress and the tool_result of the first one.
C35_Witness ==
    /\ pc = "exec_done"
    /\ tool_resp = ServerResponse("http", 200, TRUE,
                                  <<ResultLine(TextEnvelope),
                                    ResultLine(RowsEnvelope)>>)
    /\ Len(out) = 3
    /\ out[1].type = "tool_start"
    /\ out[3].type = "tool_result"
    /\ out[3].tool_result.v.mcp_result = TextEnvelope

(***************************************************************************)
(* SpecRelay: POST /chat of the Superset view (McpClientApi.chat,          *)
(* generate_stream).  relay holds the answer of the upstream client: its   *)
(* status (0: the request to it raises), the chunks iter_text() gives, the *)
(* chunk at which reading raises (0: never), and how many chunks were      *)
(* read.  out holds what the view yields to the browser.                   *)
(***************************************************************************)
MaxRelayChunks == 3     \* chunks of the upstream answer in SpecRelay

\* f"data: {json.dumps(error_data)}\n\n"; the timestamp is left out
ErrorEvent(error) ==
    "data: {\"type\": \"error\", \"error\": \"" \o error \o "\"}\n\n"

\* {response.status_code} in an f-string
RECURSIVE StatusText(_)
StatusText(n) == IF n < 10 THEN DigitChars[n + 1]
                 ELSE StatusText(n \div 10) \o DigitChars[(n % 10) + 1]

\* variant: an empty chunk is yielded too
RelayedAll(chunk) == <<chunk>>

\* if chunk: yield chunk
Relayed(chunk) == IF chunk # "" THEN <<chunk>> ELSE <<>>

UpstreamChunks ==
    {"", "data: {\"type\": \"content\", \"content\": \"Hello\"}\n\n",
     "data: {\"type\": \"done\"}\n\n"}

Upstream(status, chunks, raises) ==
    [pc |-> "start", status |-> status, chunks |-> chunks, raises |-> raises,
     k |-> 0]

RelayUnchanged ==
    UNCHANGED <<pc, client_ok, api_key, request_model, tools_cache, mcp_tools,
                messages, gen, gen_tools, chunk_count, tool_calls,
                batch_tool_calls, call_k, function_args, tool_results, gens,
                rounds, invoked, frags, texts, fetches, connected, chats,
                tool_resp, trunc_vars, rpc_vars>>

InitRelay ==
    /\ RequestIdle
    /\ chats = <<>>
    /\ ToolIdle
    /\ TruncIdle
    /\ RpcIdle
    /\ relay \in
         {Upstream(200, chunks, raises) :
             chunks \in SeqsUpTo(UpstreamChunks, MaxRelayChunks),
             raises \in 0..(MaxRelayChunks + 1)}
         \cup {Upstream(500, <<>>, 0), Upstream(0, <<>>, 0)}
    /\ relay.raises <= Len(relay.chunks) + 1

\* client.stream(...) and the test of the status
RelayOpen ==
    /\ relay.pc = "start"
    /\ IF relay.status = 0
       THEN /\ out' = <<ErrorEvent("All connection attempts failed")>>
            /\ relay' = [relay EXCEPT !.pc = "done"]
       ELSE IF relay.status # 200
       THEN /\ out' = <<ErrorEvent("MCP client error: "
                                   \o StatusText(relay.status))>>
            /\ relay' = [relay EXCEPT !.pc = "done"]
       ELSE /\ out' = out
            /\ relay' = [relay EXCEPT !.pc = "relaying"]
    /\ RelayUnchanged

\* one pass of `for chunk in response.iter_text()`
RelayChunk ==
    /\ relay.pc = "relaying"
    /\ relay.k < Len(relay.chunks)
    /\ relay.raises # relay.k + 1
    /\ out' = out \o Relayed(relay.chunks[relay.k + 1])
    /\ relay' = [relay EXCEPT !.k = relay.k + 1]
    /\ RelayUnchanged

\* reading the next chunk raises: the except clause of generate_stream
RelayRaise ==
    /\ relay.pc = "relaying"
    /\ relay.raises = relay.k + 1
    /\ out' = Append(out, ErrorEvent("peer closed connection"))
    /\ relay' = [relay EXCEPT !.pc = "done"]
    /\ RelayUnchanged

\* the upstream answer is exhausted
RelayEnd ==
    /\ relay.pc = "relaying"
    /\ relay.k = Len(relay.chunks)
    /\ relay.raises # relay.k + 1
    /\ out' = out
    /\ relay' = [relay EXCEPT !.pc = "done"]
    /\ RelayUnchanged

NextRelay == RelayOpen \/ RelayChunk \/ RelayRaise \/ RelayEnd

SpecRelay == InitRelay /\ [][NextRelay]_vars

\* reading the upstream answer raised
RelayRaised == relay.pc = "done" /\ relay.raises = relay.k + 1

\* C38: with upstream status 200 the stream of the view is exactly the
\* non-empty upstream chunks read so far, in upstream order and as they
\* came, followed by one error event only if reading raised; with another
\* status it is exactly one error event and nothing of the upstream body.
C38_RelayExact ==
    /\ relay.status = 200 =>
          out = SelectSeq(SubSeq(relay.chunks, 1, relay.k),
                          LAMBDA chunk : chunk # "")
                \o (IF RelayRaised
                    THEN <<ErrorEvent("peer closed connection")>> ELSE <<>>)
    /\ (relay.status # 200 /\ relay.pc = "done") =>
          /\ Len(out) = 1
          /\ out[1] \notin UpstreamChunks
          /\ out[1] = ErrorEvent(IF relay.status = 0
                                  THEN "All connection attempts failed"
                                  ELSE "MCP client error: "
                                       \o StatusText(relay.status))

\* C38 witness: status 200; a content chunk, an empty chunk and the done
\* chunk were read, reading never raised; the view yielded the two
\* non-empty chunks.
C38_Witness ==
    /\ relay.pc = "done"
    /\ relay.status = 200
    /\ relay.raises = 0
    /\ relay.k = 3
    /\ relay.chunks[2] = ""
    /\ out = <<relay.chunks[1], relay.chunks[3]>>
    /\ relay.chunks[1] # "" /\ relay.chunks[3] # ""
    /\ relay.chunks[1] # relay.chunks[3]

====
